---- MODULE Spec2Model ----
(***************************************************************************)
(* A model of the identity registry cache (zoo_registry.rs) and of the     *)
(* two-layer message encryption (zoo_message_encryption.rs) of zooai/node. *)
(* Identities are sequences of one-character strings, the strings of the   *)
(* message layer are sequences of code points, byte strings are sequences  *)
(* of integers in 0..255, time is counted in seconds.                      *)
(***************************************************************************)
EXTENDS Integers, Sequences, FiniteSets, TLC

VARIABLES
    clock,      \* SystemTime::now(), in seconds
    chainVer,   \* which revision of the on-chain registry is current
    cache,      \* ZooRegistry.cache: bare identity -> <<fetch_time, record>>
    call,       \* one get_identity_record call per caller
    task,       \* the detached background refresh tasks
    lastWriter, \* history: who made the latest insert under each cache key
    message,    \* the ZooMessage a sender and a recipient work on
    composed,   \* history: the message as its sender composed it
    parties,    \* the secret scalars of the sender's and the recipient's key pair
    sealedBody, \* history: the body the latest encrypt_outer encrypted, and its keys
    sealedData, \* history: the content the latest encrypt_inner encrypted, and its keys
    last,       \* the latest call of the message layer: arguments and result
    altered,    \* history: what was changed in the envelope in transit, if anything
    earlier,    \* the ZooName call before the latest one: arguments and result
    parsed,     \* the latest ZooName call: arguments and result
    answer,     \* the latest ZooName::contains(earlier, parsed), if it was asked
    address,    \* the latest validate_address call: argument and result
    cacheTime   \* the latest get_cache_time call: argument and result

regVars == <<clock, chainVer, cache, call, task, lastWriter>>
msgVars == <<message, composed, parties, sealedBody, sealedData, last, altered>>
nameVars == <<earlier, parsed, answer>>
addrVars == <<address>>
keyVars == <<cacheTime>>
vars == <<clock, chainVer, cache, call, task, lastWriter,
          message, composed, parties, sealedBody, sealedData, last, altered,
          earlier, parsed, answer, address, cacheTime>>

-----------------------------------------------------------------------------
(* Bounds *)

MaxTasks == 1
MaxTicks == 4
MaxRevision == 2
RaceTicks == 1
MaxNonces == 2

Callers == {1, 2}
Tasks == 1..MaxTasks

-----------------------------------------------------------------------------
(* String helpers (std::str) *)

starts_with(s, p) == Len(s) >= Len(p) /\ SubSeq(s, 1, Len(p)) = p

ends_with(s, p) == Len(s) >= Len(p) /\ SubSeq(s, Len(s) - Len(p) + 1, Len(s)) = p

RECURSIVE trim_start_matches(_, _)
trim_start_matches(s, p) ==
    IF Len(p) > 0 /\ starts_with(s, p)
    THEN trim_start_matches(SubSeq(s, Len(p) + 1, Len(s)), p)
    ELSE s

\* node.split(':').next(): the text before the first occurrence of ch
RECURSIVE split_first(_, _)
split_first(s, ch) ==
    IF s = <<>> \/ Head(s) = ch THEN <<>>
    ELSE <<Head(s)>> \o split_first(Tail(s), ch)

RECURSIVE join(_, _)
join(list, sep) ==
    IF list = <<>> THEN <<>>
    ELSE IF Len(list) = 1 THEN list[1]
    ELSE list[1] \o sep \o join(Tail(list), sep)

-----------------------------------------------------------------------------
(* Program constants *)

CACHE_TIME == 60 * 30
CACHE_NO_UPDATE == 60 * 15

\* the clock advances in steps of half the no-update window
TickSeconds == CACHE_NO_UPDATE \div 2
MaxClock == MaxTicks * TickSeconds

AtAt == <<"@", "@">>
Comma == <<",">>
SufZoo == <<".", "z", "o", "o">>
SufSepZoo == <<".", "s", "e", "p", "-", "z", "o", "o">>
SufSepoliaZoo == <<".", "s", "e", "p", "o", "l", "i", "a", "-", "z", "o", "o">>
SufArbSepZoo == <<".", "a", "r", "b", "-", "s", "e", "p", "-", "z", "o", "o">>

\* the endings of a registry identity's node name (ZooName::VALID_ENDINGS)
VALID_ENDINGS == {SufZoo, SufSepoliaZoo, SufArbSepZoo, SufSepZoo}

-----------------------------------------------------------------------------
(* The chain (get_identity_data, an external collaborator).  Identity a.zoo *)
(* is registered and its endpoint list differs from revision to revision;   *)
(* p.zoo and q.sep-zoo are registered proxies; nothing else is registered.  *)

IdA == <<"a">> \o SufZoo
IdB == <<"b">> \o SufZoo
IdP == <<"p">> \o SufZoo
IdQ == <<"q">> \o SufSepZoo
IdX == <<"x">> \o SufArbSepZoo
Addr1 == <<"1", ".", "1", ":", "8">>
Addr2 == <<"2", ".", "2", ":", "8">>

\* the revisions of a.zoo's endpoint list: a raw address, two proxies, a
\* proxy next to a raw address, a proxy under the fourth identity suffix
Versions == 1..4

EndpointsOfA(v) ==
    CASE v = 1 -> <<Addr1>>
      [] v = 2 -> <<IdP, IdQ>>
      [] v = 3 -> <<IdP, Addr1>>
      [] v = 4 -> <<IdX>>

NoData == [none |-> TRUE]

IdentityData(nft, enc, endpoints, updated) ==
    [none |-> FALSE,
     bound_nft |-> nft,
     staked_tokens |-> nft * 10,
     encryption_key |-> enc,
     signature_key |-> enc + 1,
     routing |-> (nft > 50),
     address_or_proxy_nodes |-> endpoints,
     delegated_tokens |-> nft + 7,
     last_updated |-> updated]

\* The identity_data field of get_identity_data's answer at revision v
ChainLookup(key, v) ==
    CASE key = IdA -> IdentityData(v, 10 * v, EndpointsOfA(v), 100 + v)
      [] key = IdP -> IdentityData(60, 600, <<Addr2>>, 200)
      [] key = IdX -> IdentityData(80, 800, <<Addr2>>, 400)
      [] key = join(<<IdP, IdQ>>, Comma) -> IdentityData(70, 700, <<IdP, Addr2>>, 300)
      [] OTHER -> NoData

-----------------------------------------------------------------------------
(* OnchainIdentity and fetch_identity_record *)

OnchainIdentity(identity, d) ==
    [zoo_identity |-> identity,
     bound_nft |-> d.bound_nft,
     staked_tokens |-> d.staked_tokens,
     encryption_key |-> d.encryption_key,
     signature_key |-> d.signature_key,
     routing |-> d.routing,
     address_or_proxy_nodes |-> d.address_or_proxy_nodes,
     delegated_tokens |-> d.delegated_tokens,
     last_updated |-> d.last_updated]

IsProxyNode(node) ==
    LET node_base == split_first(node, ":")
    IN  \/ ends_with(node_base, SufSepoliaZoo)
        \/ ends_with(node_base, SufZoo)
        \/ ends_with(node_base, SufSepZoo)

HasProxyNode(record) ==
    \E i \in 1..Len(record.address_or_proxy_nodes) :
        IsProxyNode(record.address_or_proxy_nodes[i])

ProxyLookupKey(record) == join(record.address_or_proxy_nodes, Comma)

UpdatedRecord(record, d) ==
    [record EXCEPT !.address_or_proxy_nodes = d.address_or_proxy_nodes]

-----------------------------------------------------------------------------
(* Results *)

Ok(record) == [ok |-> TRUE, record |-> record]
Err(kind) == [ok |-> FALSE, err |-> kind]
NoResult == [ok |-> FALSE, err |-> "pending"]
NoRecord == [none |-> TRUE]
NoEntry == <<>>

\* cache.get(identity), cloned
CacheGet(c, identity) == IF identity \in DOMAIN c THEN c[identity] ELSE NoEntry

\* CacheInsert that keeps an entry that is already there (entry().or_insert())
CacheInsertKeepFirst(c, identity, time, record) ==
    [k \in DOMAIN c \cup {identity} |->
        IF k \in DOMAIN c THEN c[k] ELSE <<time, record>>]

\* CacheInsert that keeps the entry in the cache when its record is of a later
\* chain revision than the one being inserted
CacheInsertKeepNewer(c, identity, time, record) ==
    [k \in DOMAIN c \cup {identity} |->
        IF k # identity THEN c[k]
        ELSE IF k \in DOMAIN c /\ c[k][2].bound_nft > record.bound_nft THEN c[k]
        ELSE <<time, record>>]

\* cache.insert(identity, (time, record)): the whole pair is replaced at once
CacheInsert(c, identity, time, record) ==
    [k \in DOMAIN c \cup {identity} |->
        IF k = identity THEN <<time, record>> ELSE c[k]]

\* the leading "@@" is stripped from the identity
StripIdentity(identity) ==
    IF starts_with(identity, AtAt) THEN trim_start_matches(identity, AtAt) ELSE identity

\* force_refresh.unwrap_or(false)
UnwrapForce(force_refresh) == force_refresh = "Some(true)"

\* now.duration_since(last_updated) fails when last_updated is later than now
DurationSinceFails(now, last_updated) == last_updated > now

\* Zone without the early return of the fresh zone
ZoneNoFresh(force, now, entry) ==
    IF force THEN "forced"
    ELSE IF entry = NoEntry THEN "miss"
    ELSE IF DurationSinceFails(now, entry[1]) THEN "timeerr"
    ELSE IF now - entry[1] < CACHE_TIME THEN "stale"
    ELSE "expired"

\* Zone with <= for the first comparison
ZoneFreshInclusive(force, now, entry) ==
    IF force THEN "forced"
    ELSE IF entry = NoEntry THEN "miss"
    ELSE IF DurationSinceFails(now, entry[1]) THEN "timeerr"
    ELSE IF now - entry[1] <= CACHE_NO_UPDATE THEN "fresh"
    ELSE IF now - entry[1] < CACHE_TIME THEN "stale"
    ELSE "expired"

\* Zone with <= for the second comparison
ZoneStaleInclusive(force, now, entry) ==
    IF force THEN "forced"
    ELSE IF entry = NoEntry THEN "miss"
    ELSE IF DurationSinceFails(now, entry[1]) THEN "timeerr"
    ELSE IF now - entry[1] < CACHE_NO_UPDATE THEN "fresh"
    ELSE IF now - entry[1] <= CACHE_TIME THEN "stale"
    ELSE "expired"

\* the zone get_identity_record takes once it has read the cache
Zone(force, now, entry) ==
    IF force THEN "forced"
    ELSE IF entry = NoEntry THEN "miss"
    ELSE IF DurationSinceFails(now, entry[1]) THEN "timeerr"
    ELSE IF now - entry[1] < CACHE_NO_UPDATE THEN "fresh"
    ELSE IF now - entry[1] < CACHE_TIME THEN "stale"
    ELSE "expired"

-----------------------------------------------------------------------------
(* update_cache, run by a caller (blocking path) or by a background task.  *)
(* A job is the part of a call or task record that update_cache works on.  *)

IdleCall ==
    [pc |-> "idle", identity |-> <<>>, force |-> FALSE, now |-> 0,
     zone |-> "none", record |-> NoRecord, keys |-> <<>>,
     written |-> NoEntry, spawned |-> 0, result |-> NoResult]

FreeTask ==
    [pc |-> "free", identity |-> <<>>, readAt |-> 0, record |-> NoRecord,
     keys |-> <<>>, written |-> NoEntry, result |-> NoResult]

\* first get_identity_data call of fetch_identity_record
AfterLookup1(j, ok, v) ==
    LET d == ChainLookup(j.identity, v)
        keys == Append(j.keys, j.identity)
    IN  IF ~ok
        THEN [j EXCEPT !.pc = "done", !.keys = keys, !.result = Err("IdentityFetchError")]
        ELSE IF d.none
        THEN [j EXCEPT !.pc = "done", !.keys = keys, !.result = Err("IdentityNotFound")]
        ELSE LET onchain_identity == OnchainIdentity(j.identity, d)
             IN  [j EXCEPT !.pc = IF HasProxyNode(onchain_identity) THEN "lookup2" ELSE "insert",
                           !.keys = keys,
                           !.record = onchain_identity]

\* second get_identity_data call, for the proxy
AfterLookup2(j, ok, v) ==
    LET key == ProxyLookupKey(j.record)
        d == ChainLookup(key, v)
        keys == Append(j.keys, key)
    IN  IF ~ok
        THEN [j EXCEPT !.pc = "done", !.keys = keys, !.record = NoRecord,
                       !.result = Err("IdentityFetchError")]
        ELSE IF d.none
        THEN [j EXCEPT !.pc = "done", !.keys = keys, !.record = NoRecord,
                       !.result = Err("IdentityNotFound")]
        ELSE [j EXCEPT !.pc = "insert", !.keys = keys,
                       !.record = UpdatedRecord(j.record, d)]

\* cache.insert(identity, (SystemTime::now(), record)); Ok(record)
AfterInsert(j, time) ==
    [j EXCEPT !.pc = "done", !.written = <<time, j.record>>, !.result = Ok(j.record)]

\* history of the inserts: writer is now the latest under this key
Wrote(w, identity, writer) ==
    [k \in DOMAIN w \cup {identity} |-> IF k = identity THEN writer ELSE w[k]]

-----------------------------------------------------------------------------
(* get_identity_record *)

RawIdentities == {IdA, AtAt \o IdA, IdB}
ForceOptions == {"None", "Some(false)", "Some(true)"}

FreeTasks == {t \in Tasks : task[t].pc = "free"}

\* lines 257-264
Start(c, raw, force_refresh) ==
    /\ call[c].pc = "idle"
    /\ call' = [call EXCEPT ![c] =
            [IdleCall EXCEPT !.pc = "check",
                             !.identity = StripIdentity(raw),
                             !.force = UnwrapForce(force_refresh),
                             !.now = clock]]
    /\ UNCHANGED <<clock, chainVer, cache, task, lastWriter>>
    /\ UNCHANGED <<msgVars, nameVars, addrVars, keyVars>>

\* the task::spawn of the stale zone
SpawnRefresh(t, identity) ==
    task' = [task EXCEPT ![t] =
        [FreeTask EXCEPT !.pc = "lookup1", !.identity = identity, !.readAt = clock]]

\* CheckCache removing an entry it finds older than CACHE_TIME
CheckCacheEvicting(c) ==
    /\ call[c].pc = "check"
    /\ LET entry == CacheGet(cache, call[c].identity)
           zone == Zone(call[c].force, call[c].now, entry)
           j == [call[c] EXCEPT !.zone = zone, !.now = 0]
       IN  /\ CASE zone = "fresh" ->
                    /\ call' = [call EXCEPT ![c] = [j EXCEPT !.pc = "done", !.result = Ok(entry[2])]]
                    /\ UNCHANGED task
               [] zone = "stale" ->
                    /\ FreeTasks # {}
                    /\ SpawnRefresh(CHOOSE t \in FreeTasks : \A u \in FreeTasks : t <= u,
                                    call[c].identity)
                    /\ call' = [call EXCEPT ![c] =
                          [j EXCEPT !.pc = "done", !.spawned = 1, !.result = Ok(entry[2])]]
               [] zone = "timeerr" ->
                    /\ call' = [call EXCEPT ![c] =
                          [j EXCEPT !.pc = "done", !.result = Err("SystemTimeError")]]
                    /\ UNCHANGED task
               [] OTHER ->
                    /\ call' = [call EXCEPT ![c] = [j EXCEPT !.pc = "lookup1"]]
                    /\ UNCHANGED task
           /\ cache' = IF zone = "expired"
                       THEN [k \in DOMAIN cache \ {call[c].identity} |-> cache[k]]
                       ELSE cache
    /\ UNCHANGED <<clock, chainVer, lastWriter>>
    /\ UNCHANGED <<msgVars, nameVars, addrVars, keyVars>>

\* lines 267-302
CheckCache(c) ==
    /\ call[c].pc = "check"
    /\ LET entry == CacheGet(cache, call[c].identity)
           zone == Zone(call[c].force, call[c].now, entry)
           j == [call[c] EXCEPT !.zone = zone, !.now = 0]
       IN  CASE zone = "fresh" ->
                  /\ call' = [call EXCEPT ![c] = [j EXCEPT !.pc = "done", !.result = Ok(entry[2])]]
                  /\ UNCHANGED task
             [] zone = "stale" ->
                  /\ FreeTasks # {}
                  /\ SpawnRefresh(CHOOSE t \in FreeTasks : \A u \in FreeTasks : t <= u,
                                  call[c].identity)
                  /\ call' = [call EXCEPT ![c] =
                        [j EXCEPT !.pc = "done", !.spawned = 1, !.result = Ok(entry[2])]]
             [] zone = "timeerr" ->
                  /\ call' = [call EXCEPT ![c] =
                        [j EXCEPT !.pc = "done", !.result = Err("SystemTimeError")]]
                  /\ UNCHANGED task
             [] OTHER ->
                  /\ call' = [call EXCEPT ![c] = [j EXCEPT !.pc = "lookup1"]]
                  /\ UNCHANGED task
    /\ UNCHANGED <<clock, chainVer, cache, lastWriter>>
    /\ UNCHANGED <<msgVars, nameVars, addrVars, keyVars>>

\* CallLookup1 dropping the cache entry when the lookup fails
CallLookup1Evict(c, ok) ==
    /\ call[c].pc = "lookup1"
    /\ call' = [call EXCEPT ![c] = AfterLookup1(call[c], ok, chainVer)]
    /\ cache' = IF call'[c].pc = "done"
                THEN [k \in DOMAIN cache \ {call[c].identity} |-> cache[k]]
                ELSE cache
    /\ UNCHANGED <<clock, chainVer, task, lastWriter>>
    /\ UNCHANGED <<msgVars, nameVars, addrVars, keyVars>>

CallLookup1(c, ok) ==
    /\ call[c].pc = "lookup1"
    /\ call' = [call EXCEPT ![c] = AfterLookup1(call[c], ok, chainVer)]
    /\ UNCHANGED <<clock, chainVer, cache, task, lastWriter>>
    /\ UNCHANGED <<msgVars, nameVars, addrVars, keyVars>>

CallLookup2(c, ok) ==
    /\ call[c].pc = "lookup2"
    /\ call' = [call EXCEPT ![c] = AfterLookup2(call[c], ok, chainVer)]
    /\ UNCHANGED <<clock, chainVer, cache, task, lastWriter>>
    /\ UNCHANGED <<msgVars, nameVars, addrVars, keyVars>>

CallInsert(c) ==
    /\ call[c].pc = "insert"
    /\ cache' = CacheInsert(cache, call[c].identity, clock, call[c].record)
    /\ call' = [call EXCEPT ![c] = AfterInsert(call[c], clock)]
    /\ lastWriter' = Wrote(lastWriter, call[c].identity, <<"call", c>>)
    /\ UNCHANGED <<clock, chainVer, task>>
    /\ UNCHANGED <<msgVars, nameVars, addrVars, keyVars>>

\* the caller has its result; the next call of this caller may start
Return(c) ==
    /\ call[c].pc = "done"
    /\ call' = [call EXCEPT ![c] = IdleCall]
    /\ UNCHANGED <<clock, chainVer, cache, task, lastWriter>>
    /\ UNCHANGED <<msgVars, nameVars, addrVars, keyVars>>

-----------------------------------------------------------------------------
(* The detached refresh task spawned in the stale zone *)

\* a finished task no longer holds the time of the read that spawned it
Finished(j) == IF j.pc = "done" THEN [j EXCEPT !.readAt = 0] ELSE j

TaskLookup1(t, ok) ==
    /\ task[t].pc = "lookup1"
    /\ task' = [task EXCEPT ![t] = Finished(AfterLookup1(task[t], ok, chainVer))]
    /\ UNCHANGED <<clock, chainVer, cache, call, lastWriter>>
    /\ UNCHANGED <<msgVars, nameVars, addrVars, keyVars>>

TaskLookup2(t, ok) ==
    /\ task[t].pc = "lookup2"
    /\ task' = [task EXCEPT ![t] = Finished(AfterLookup2(task[t], ok, chainVer))]
    /\ UNCHANGED <<clock, chainVer, cache, call, lastWriter>>
    /\ UNCHANGED <<msgVars, nameVars, addrVars, keyVars>>

TaskInsert(t) ==
    /\ task[t].pc = "insert"
    /\ cache' = CacheInsert(cache, task[t].identity, clock, task[t].record)
    /\ task' = [task EXCEPT ![t] = Finished(AfterInsert(task[t], clock))]
    /\ lastWriter' = Wrote(lastWriter, task[t].identity, <<"task", t>>)
    /\ UNCHANGED <<clock, chainVer, call>>
    /\ UNCHANGED <<msgVars, nameVars, addrVars, keyVars>>

\* the task ends: an error was logged, nothing is handed to anybody
TaskExit(t) ==
    /\ task[t].pc = "done"
    /\ task' = [task EXCEPT ![t] = FreeTask]
    /\ UNCHANGED <<clock, chainVer, cache, call, lastWriter>>
    /\ UNCHANGED <<msgVars, nameVars, addrVars, keyVars>>

-----------------------------------------------------------------------------
(* get_cache_time *)

\* self.cache.get(identity).map(|value| value.value().0): Some(t) is <<t>>
get_cache_time(c, identity) ==
    IF identity \in DOMAIN c THEN <<c[identity][1]>> ELSE <<>>

NoCacheTime == [identity |-> <<>>, result |-> <<>>]

GetCacheTime(identity) ==
    /\ cacheTime' = [identity |-> identity, result |-> get_cache_time(cache, identity)]
    /\ UNCHANGED <<regVars, msgVars, nameVars, addrVars>>

-----------------------------------------------------------------------------
(* Environment *)

TickTo(max) ==
    /\ clock + TickSeconds <= max
    /\ clock' = clock + TickSeconds
    /\ UNCHANGED <<chainVer, cache, call, task, lastWriter>>
    /\ UNCHANGED <<msgVars, nameVars, addrVars, keyVars>>

Tick == TickTo(MaxClock)

RaceTick == TickTo(RaceTicks * TickSeconds)

\* the owner of a.zoo publishes the next revision of its record
PublishUpTo(max) ==
    /\ chainVer + 1 \in Versions
    /\ chainVer + 1 <= max
    /\ chainVer' = chainVer + 1
    /\ UNCHANGED <<clock, cache, call, task, lastWriter>>
    /\ UNCHANGED <<msgVars, nameVars, addrVars, keyVars>>

ChainUpdate == PublishUpTo(MaxRevision)

ChainUpdateAny == PublishUpTo(4)

-----------------------------------------------------------------------------
(* Text and bytes of the message layer.  A String of the message layer is  *)
(* a sequence of Unicode code points, a byte string (Vec<u8>) a sequence   *)
(* of integers in 0..255.                                                  *)

\* the printable ASCII characters: code points 32..95 and 97..126 in order
AsciiLow ==
    <<" ", "!", "\"", "#", "$", "%", "&", "'", "(", ")", "*", "+", ",", "-",
    ".", "/", "0", "1", "2", "3", "4", "5", "6", "7", "8", "9", ":", ";",
    "<", "=", ">", "?", "@", "A", "B", "C", "D", "E", "F", "G", "H", "I",
    "J", "K", "L", "M", "N", "O", "P", "Q", "R", "S", "T", "U", "V", "W",
    "X", "Y", "Z", "[", "\\", "]", "^", "_">>
AsciiHigh ==
    <<"a", "b", "c", "d", "e", "f", "g", "h", "i", "j", "k", "l", "m", "n",
    "o", "p", "q", "r", "s", "t", "u", "v", "w", "x", "y", "z", "{", "|",
    "}", "~">>

CodePoint ==
    [ch \in {AsciiLow[i] : i \in 1..Len(AsciiLow)} \cup {AsciiHigh[i] : i \in 1..Len(AsciiHigh)} |->
        IF \E i \in 1..Len(AsciiLow) : AsciiLow[i] = ch
        THEN 31 + (CHOOSE i \in 1..Len(AsciiLow) : AsciiLow[i] = ch)
        ELSE 96 + (CHOOSE i \in 1..Len(AsciiHigh) : AsciiHigh[i] = ch)]

\* a string literal of the source, written as its characters
Str(chars) == [i \in 1..Len(chars) |-> CodePoint[chars[i]]]

\* the UTF-8 encoding of one code point
Utf8(cp) ==
    IF cp < 128 THEN <<cp>>
    ELSE IF cp < 2048 THEN <<192 + (cp \div 64), 128 + (cp % 64)>>
    ELSE IF cp < 65536
         THEN <<224 + (cp \div 4096), 128 + ((cp \div 64) % 64), 128 + (cp % 64)>>
    ELSE <<240 + (cp \div 262144), 128 + ((cp \div 4096) % 64),
           128 + ((cp \div 64) % 64), 128 + (cp % 64)>>

\* str::as_bytes / String::len: a String is stored as its UTF-8 bytes
RECURSIVE Utf8Range(_, _, _)
Utf8Range(s, lo, hi) ==
    IF lo > hi THEN <<>>
    ELSE IF lo = hi THEN Utf8(s[lo])
    ELSE LET mid == (lo + hi) \div 2
         IN  Utf8Range(s, lo, mid) \o Utf8Range(s, mid + 1, hi)

as_bytes(s) == Utf8Range(s, 1, Len(s))

IsContinuation(byte) == byte \in 128..191

\* the number of bytes of the character a lead byte starts, 0 for a byte
\* that starts none
Utf8Width(byte) ==
    IF byte < 128 THEN 1
    ELSE IF byte \in 194..223 THEN 2
    ELSE IF byte \in 224..239 THEN 3
    ELSE IF byte \in 240..244 THEN 4
    ELSE 0

\* the code point of the character whose lead byte is b[i]
Utf8CodePointAt(b, i) ==
    LET w == Utf8Width(b[i])
        low(k) == b[i + k] - 128
    IN  IF w = 1 THEN b[i]
        ELSE IF w = 2 THEN (b[i] - 192) * 64 + low(1)
        ELSE IF w = 3 THEN (b[i] - 224) * 4096 + low(1) * 64 + low(2)
        ELSE (b[i] - 240) * 262144 + low(1) * 4096 + low(2) * 64 + low(3)

\* b[i] starts a well-formed character: its continuation bytes follow it,
\* no further one follows them, and the code point is in the range of its width
Utf8WellFormedAt(b, i) ==
    LET w == Utf8Width(b[i])
        cp == Utf8CodePointAt(b, i)
    IN  /\ w > 0
        /\ i + w - 1 <= Len(b)
        /\ \A k \in 1..(w - 1) : IsContinuation(b[i + k])
        /\ i + w <= Len(b) => ~IsContinuation(b[i + w])
        /\ w = 3 => cp >= 2048 /\ cp \notin 55296..57343
        /\ w = 4 => cp \in 65536..1114111

RECURSIVE Utf8DecodeRange(_, _, _)
Utf8DecodeRange(b, lo, hi) ==
    IF lo > hi THEN <<>>
    ELSE IF lo = hi
         THEN IF IsContinuation(b[lo]) THEN <<>> ELSE <<Utf8CodePointAt(b, lo)>>
    ELSE LET mid == (lo + hi) \div 2
         IN  Utf8DecodeRange(b, lo, mid) \o Utf8DecodeRange(b, mid + 1, hi)

\* String::from_utf8: Ok(code points) or Err for a byte string that is not UTF-8
from_utf8(b) ==
    IF /\ Len(b) > 0 => ~IsContinuation(b[1])
       /\ \A i \in 1..Len(b) : IsContinuation(b[i]) \/ Utf8WellFormedAt(b, i)
    THEN [ok |-> TRUE, value |-> Utf8DecodeRange(b, 1, Len(b))]
    ELSE [ok |-> FALSE, value |-> <<>>]

\* str::split: the pieces of s between occurrences of the character ch
RECURSIVE split(_, _)
split(s, ch) ==
    IF \E i \in 1..Len(s) : s[i] = ch
    THEN LET i == CHOOSE k \in 1..Len(s) : s[k] = ch /\ \A m \in 1..(k - 1) : s[m] # ch
         IN  <<SubSeq(s, 1, i - 1)>> \o split(SubSeq(s, i + 1, Len(s)), ch)
    ELSE <<s>>

\* slice::split_at(mid) panics when mid > len
SplitAtPanics(b, mid) == mid > Len(b)
SplitAt(b, mid) == <<SubSeq(b, 1, mid), SubSeq(b, mid + 1, Len(b))>>

\* u64::to_le_bytes of a length below 2^31
to_le_bytes(n) ==
    [i \in 1..8 |-> IF i = 1 THEN n % 256
                    ELSE IF i = 2 THEN (n \div 256) % 256
                    ELSE IF i = 3 THEN (n \div 65536) % 256
                    ELSE IF i = 4 THEN (n \div 16777216) % 256
                    ELSE 0]

\* u64::from_le_bytes; a value of 2^31 or more is reported as 2^31 - 1, which
\* is above every length the model can hold
from_le_bytes(b) ==
    IF b[4] >= 128 \/ \E i \in 5..8 : b[i] # 0 THEN 2147483647
    ELSE b[1] + 256 * b[2] + 65536 * b[3] + 16777216 * b[4]

HexDigits == Str(<<"0", "1", "2", "3", "4", "5", "6", "7", "8", "9", "a", "b", "c",
        "d", "e", "f">>)

\* hex::encode: two lower-case digits per byte
hex_encode(b) ==
    [i \in 1..(2 * Len(b)) |->
        LET byte == b[(i + 1) \div 2]
        IN  HexDigits[(IF i % 2 = 1 THEN byte \div 16 ELSE byte % 16) + 1]]

\* the value of a hex digit of either case, -1 for any other character
HexValue(cp) ==
    IF cp \in 48..57 THEN cp - 48
    ELSE IF cp \in 97..102 THEN cp - 87
    ELSE IF cp \in 65..70 THEN cp - 55
    ELSE -1

\* hex::decode: Err on an odd number of bytes or on a character that is no digit
hex_decode(s) ==
    IF Len(as_bytes(s)) % 2 = 1
    THEN [ok |-> FALSE, err |-> "OddLength"]
    ELSE IF \E i \in 1..Len(s) : HexValue(s[i]) < 0
    THEN [ok |-> FALSE, err |-> "InvalidHexCharacter"]
    ELSE [ok |-> TRUE,
          value |-> [i \in 1..(Len(s) \div 2) |->
                        16 * HexValue(s[2 * i - 1]) + HexValue(s[2 * i])]]

-----------------------------------------------------------------------------
(* Key agreement, key derivation and the AEAD cipher.  The Diffie-Hellman  *)
(* function is exponentiation in the multiplicative group modulo DhPrime;  *)
(* the digest, the key stream and the tag are arithmetic modulo 256 on the *)
(* real byte layout (32-byte key, 12-byte nonce, 16-byte tag).             *)

DhPrime == 59
DhBase == 2

RECURSIVE Pow(_, _, _)
Pow(b, e, m) == IF e = 0 THEN 1 % m ELSE (b * Pow(b, e - 1, m)) % m

\* the secret scalars of the key pairs of the model
EncryptionStaticKeys == {2, 3, 5}

\* EncryptionPublicKey::from(&sk)
EncryptionPublicKey(sk) == Pow(DhBase, sk, DhPrime)

\* a function of both arguments that is not symmetric in the two key pairs
diffie_hellman_one_sided(sk, pk) == (pk + 7 * sk) % DhPrime

\* StaticSecret::diffie_hellman
diffie_hellman(sk, pk) == Pow(pk, sk, DhPrime)

\* blake3::Hasher: update(shared_secret), finalize: a 32-byte digest
blake3(shared_secret) == [i \in 1..32 |-> (shared_secret * (2 * i + 1) + 7 * i) % 256]

\* the cipher key both sides derive: ChaCha20Poly1305::new(hash of the shared secret)
CipherKey(self_sk, other_pk) == blake3(diffie_hellman(self_sk, other_pk))

\* OsRng.fill_bytes(&mut nonce): the 12-byte nonces the model draws
NonceOf(seed) == [i \in 1..12 |-> (seed * 31 + i * 7) % 256]
Nonces == {NonceOf(seed) : seed \in 1..MaxNonces}

KeyStream(key, nonce, j) ==
    (key[((j - 1) % 32) + 1] + nonce[((j - 1) % 12) + 1] + j) % 256

\* the sum modulo 256 of b[lo..hi], each byte times its index when weighted
RECURSIVE WeightedSum(_, _, _, _)
WeightedSum(b, lo, hi, weighted) ==
    IF lo > hi THEN 0
    ELSE IF lo = hi THEN ((IF weighted THEN lo ELSE 1) * b[lo]) % 256
    ELSE LET mid == (lo + hi) \div 2
         IN  (WeightedSum(b, lo, mid, weighted) + WeightedSum(b, mid + 1, hi, weighted)) % 256

\* the 16-byte authentication tag over key, nonce and ciphertext
Tag(key, nonce, ct) ==
    LET s1 == WeightedSum(ct, 1, Len(ct), FALSE)
        s2 == WeightedSum(ct, 1, Len(ct), TRUE)
    IN  [k \in 1..16 |->
            (key[k] + nonce[((k - 1) % 12) + 1] + s2 + k * s1 + Len(ct)) % 256]

\* Aead::encrypt: ciphertext || tag
aead_encrypt(key, nonce, plaintext) ==
    LET ct == [j \in 1..Len(plaintext) |->
                  (plaintext[j] + KeyStream(key, nonce, j)) % 256]
    IN  ct \o Tag(key, nonce, ct)

\* a cipher that does not verify the tag: it removes the key stream from
\* whatever it is given
aead_decrypt_unverified(key, nonce, data) ==
    IF Len(data) < 16 THEN [ok |-> FALSE]
    ELSE LET ct == SubSeq(data, 1, Len(data) - 16)
         IN  [ok |-> TRUE,
              value |-> [j \in 1..Len(ct) |->
                            (ct[j] + 256 - KeyStream(key, nonce, j)) % 256]]

\* Aead::decrypt: Err unless the tag is the tag of the ciphertext under this
\* key and nonce
aead_decrypt(key, nonce, data) ==
    IF Len(data) < 16 THEN [ok |-> FALSE]
    ELSE LET ct == SubSeq(data, 1, Len(data) - 16)
             tag == SubSeq(data, Len(data) - 15, Len(data))
         IN  IF tag # Tag(key, nonce, ct) THEN [ok |-> FALSE]
             ELSE [ok |-> TRUE,
                   value |-> [j \in 1..Len(ct) |->
                                 (ct[j] + 256 - KeyStream(key, nonce, j)) % 256]]

-----------------------------------------------------------------------------
(* Message values (zoo_message.rs) and their JSON form                     *)

OkOf(value) == [ok |-> TRUE, value |-> value]
Fail(kind, text) == [ok |-> FALSE, err |-> kind, text |-> text]
\* the call does not return: the thread panics
Panic(text) == [ok |-> FALSE, err |-> "panic", text |-> text]

\* MessageSchemaType and its string form
Schemas == {"TextContent", "JobMessageSchema"}

to_str(schema) ==
    IF schema = "TextContent"
    THEN Str(<<"T", "e", "x", "t", "C", "o", "n", "t", "e", "n", "t">>)
    ELSE Str(<<"J", "o", "b", "M", "e", "s", "s", "a", "g", "e", "S", "c", "h", "e", "m", "a">>)

\* MessageSchemaType::from_str: Some(schema) for the string form of a schema
from_str(s) ==
    IF \E t \in Schemas : to_str(t) = s
    THEN [some |-> TRUE, value |-> CHOOSE t \in Schemas : to_str(t) = s]
    ELSE [some |-> FALSE]

UnencryptedData(content, schema) ==
    [tag |-> "Unencrypted", message_raw_content |-> content,
     message_content_schema |-> schema]
EncryptedZooData(content) == [tag |-> "Encrypted", content |-> content]

InternalMetadata(sender_subidentity, recipient_subidentity) ==
    [sender_subidentity |-> sender_subidentity,
     recipient_subidentity |-> recipient_subidentity]

UnencryptedBody(message_data, internal_metadata) ==
    [tag |-> "Unencrypted", message_data |-> message_data,
     internal_metadata |-> internal_metadata]
EncryptedZooBody(content) == [tag |-> "Encrypted", content |-> content]

EncryptionMethods == {"None", "DiffieHellmanChaChaPoly1305"}

ZooMessage(body, encryption, external_metadata) ==
    [body |-> body, encryption |-> encryption,
     external_metadata |-> external_metadata]

Quote == CodePoint["\""]
Backslash == CodePoint["\\"]
Colon == CodePoint[":"]

\* serde_json writes '"' and '\' of a string with a backslash before them
RECURSIVE JsonEscapeRange(_, _, _)
JsonEscapeRange(s, lo, hi) ==
    IF lo > hi THEN <<>>
    ELSE IF lo = hi
         THEN IF s[lo] \in {Quote, Backslash} THEN <<Backslash, s[lo]>> ELSE <<s[lo]>>
    ELSE LET mid == (lo + hi) \div 2
         IN  JsonEscapeRange(s, lo, mid) \o JsonEscapeRange(s, mid + 1, hi)

JsonEscape(s) == JsonEscapeRange(s, 1, Len(s))

JsonString(s) == <<Quote>> \o JsonEscape(s) \o <<Quote>>

LitUnencryptedData == Str(<<"{", "\"", "U", "n", "e", "n", "c", "r", "y", "p", "t", "e", "d", "\"", ":", "{", "\"", "m", "e", "s", "s", "a", "g", "e", "_", "r", "a", "w", "_", "c", "o", "n", "t", "e", "n", "t", "\"",
        ":">>)
LitContentSchema == Str(<<",", "\"", "m", "e", "s", "s", "a", "g", "e", "_", "c", "o", "n", "t", "e", "n", "t", "_", "s", "c", "h", "e", "m", "a", "\"", ":">>)
LitEncryptedData == Str(<<"{", "\"", "E", "n", "c", "r", "y", "p", "t", "e", "d", "\"", ":", "{", "\"", "c", "o", "n", "t", "e", "n", "t", "\"", ":">>)
LitCloseTwo == Str(<<"}", "}">>)
LitMessageData == Str(<<"{", "\"", "m", "e", "s", "s", "a", "g", "e", "_", "d", "a", "t", "a", "\"", ":">>)
LitInternalMetadata == Str(<<",", "\"", "i", "n", "t", "e", "r", "n", "a", "l", "_", "m", "e", "t", "a", "d", "a", "t", "a", "\"", ":", "{", "\"", "s", "e", "n", "d", "e", "r", "_", "s", "u", "b", "i", "d", "e", "n",
        "t", "i", "t", "y", "\"", ":">>)
LitRecipientSubidentity == Str(<<",", "\"", "r", "e", "c", "i", "p", "i", "e", "n", "t", "_", "s", "u", "b", "i", "d", "e", "n", "t", "i", "t", "y", "\"", ":">>)

MessageDataJson(d) ==
    IF d.tag = "Unencrypted"
    THEN LitUnencryptedData \o JsonString(d.message_raw_content)
         \o LitContentSchema \o JsonString(to_str(d.message_content_schema))
         \o LitCloseTwo
    ELSE LitEncryptedData \o JsonString(d.content) \o LitCloseTwo

\* serde_json::to_vec(body) of an unencrypted body
to_vec(body) ==
    as_bytes(LitMessageData \o MessageDataJson(body.message_data)
             \o LitInternalMetadata
             \o JsonString(body.internal_metadata.sender_subidentity)
             \o LitRecipientSubidentity
             \o JsonString(body.internal_metadata.recipient_subidentity)
             \o LitCloseTwo)

\* the position after the literal lit at position pos of s, 0 if it is not there
Expect(s, pos, lit) ==
    IF pos > 0 /\ pos + Len(lit) - 1 <= Len(s) /\ SubSeq(s, pos, pos + Len(lit) - 1) = lit
    THEN pos + Len(lit)
    ELSE 0

NoParse == [ok |-> FALSE, value |-> <<>>, next |-> 0]

\* the number of backslashes that stand directly before position i, counted
\* from position from on
BackslashesBefore(s, from, i) ==
    LET k == CHOOSE j \in (from - 1)..(i - 1) :
                 /\ j = from - 1 \/ s[j] # Backslash
                 /\ \A m \in (j + 1)..(i - 1) : s[m] = Backslash
    IN  i - 1 - k

\* position i holds a backslash that escapes the character after it
IsEscape(s, from, i) ==
    s[i] = Backslash /\ BackslashesBefore(s, from, i) % 2 = 0

RECURSIVE UnescapeRange(_, _, _, _)
UnescapeRange(s, from, lo, hi) ==
    IF lo > hi THEN <<>>
    ELSE IF lo = hi THEN IF IsEscape(s, from, lo) THEN <<>> ELSE <<s[lo]>>
    ELSE LET mid == (lo + hi) \div 2
         IN  UnescapeRange(s, from, lo, mid) \o UnescapeRange(s, from, mid + 1, hi)

\* the quote at position i closes the JSON string that starts at position from
Closes(s, from, i) == s[i] = Quote /\ BackslashesBefore(s, from, i) % 2 = 0

\* the position of the closing quote of the string that starts at position
\* from: the first quote no backslash escapes; 0 if there is none
ClosingQuote(s, from) ==
    IF \E i \in from..Len(s) : Closes(s, from, i)
    THEN CHOOSE i \in from..Len(s) :
             Closes(s, from, i) /\ \A m \in from..(i - 1) : s[m] # Quote \/ ~Closes(s, from, m)
    ELSE 0

\* the characters of the JSON string between position from and its closing quote
StringUpTo(s, from, close) ==
    IF /\ close > 0
       /\ \A i \in from..(close - 1) :
              /\ s[i] >= 32
              /\ s[i] = Backslash /\ IsEscape(s, from, i) => s[i + 1] \in {Quote, Backslash}
    THEN [ok |-> TRUE, value |-> UnescapeRange(s, from, from, close - 1),
          next |-> close + 1]
    ELSE NoParse

ScanString(s, from) == StringUpTo(s, from, ClosingQuote(s, from))

ParseJsonString(s, pos) ==
    IF pos > 0 /\ pos <= Len(s) /\ s[pos] = Quote THEN ScanString(s, pos + 1)
    ELSE NoParse

\* {"Unencrypted":{"message_raw_content":content,"message_content_schema":name}}
UnencryptedDataOf(s, content, name) ==
    IF /\ content.ok /\ name.ok /\ from_str(name.value).some
       /\ Expect(s, name.next, LitCloseTwo) > 0
    THEN [ok |-> TRUE,
          value |-> UnencryptedData(content.value, from_str(name.value).value),
          next |-> Expect(s, name.next, LitCloseTwo)]
    ELSE NoParse

ParseContentSchema(s, content) ==
    UnencryptedDataOf(s, content,
                      ParseJsonString(s, Expect(s, content.next, LitContentSchema)))

\* {"Encrypted":{"content":envelope}}
EncryptedDataOf(s, envelope) ==
    IF envelope.ok /\ Expect(s, envelope.next, LitCloseTwo) > 0
    THEN [ok |-> TRUE, value |-> EncryptedZooData(envelope.value),
          next |-> Expect(s, envelope.next, LitCloseTwo)]
    ELSE NoParse

ParseMessageData(s, pos) ==
    IF Expect(s, pos, LitUnencryptedData) > 0
    THEN ParseContentSchema(s, ParseJsonString(s, Expect(s, pos, LitUnencryptedData)))
    ELSE EncryptedDataOf(s, ParseJsonString(s, Expect(s, pos, LitEncryptedData)))

\* {"message_data":data,"internal_metadata":{"sender_subidentity":sender,
\* "recipient_subidentity":recipient}} and nothing after it
BodyOf(s, data, sender, recipient) ==
    IF /\ data.ok /\ sender.ok /\ recipient.ok
       /\ Expect(s, recipient.next, LitCloseTwo) = Len(s) + 1
    THEN [ok |-> TRUE,
          value |-> UnencryptedBody(data.value,
                                    InternalMetadata(sender.value, recipient.value))]
    ELSE [ok |-> FALSE]

ParseRecipient(s, data, sender) ==
    BodyOf(s, data, sender,
           ParseJsonString(s, Expect(s, sender.next, LitRecipientSubidentity)))

ParseInternalMetadata(s, data) ==
    ParseRecipient(s, data, ParseJsonString(s, Expect(s, data.next, LitInternalMetadata)))

ParseBody(text) ==
    IF text.ok
    THEN ParseInternalMetadata(text.value,
                               ParseMessageData(text.value, Expect(text.value, 1, LitMessageData)))
    ELSE [ok |-> FALSE]

\* serde_json::from_slice::<ZooBody>: Ok(body) for the JSON form of a body,
\* Err for every other byte string
from_slice(bytes) == ParseBody(from_utf8(bytes))

-----------------------------------------------------------------------------
(* The two encryption layers (zoo_message_encryption.rs)                   *)

EncryptedPrefix == Str(<<"e", "n", "c", "r", "y", "p", "t", "e", "d", ":">>)
EncryptedMarker == Str(<<"e", "n", "c", "r", "y", "p", "t", "e", "d">>)

\* MessageBody::encrypt_message_body
encrypt_message_body(body, self_sk, destination_pk, nonce) ==
    LET body_bytes == to_vec(body)
        key == CipherKey(self_sk, destination_pk)
        ciphertext == aead_encrypt(key, nonce, body_bytes)
        nonce_and_ciphertext == nonce \o ciphertext
    IN  OkOf(EncryptedZooBody(EncryptedPrefix \o hex_encode(nonce_and_ciphertext)))

\* MessageBody::decrypt_message_body
decrypt_message_body(encrypted_body, self_sk, sender_pk) ==
    LET parts == split(encrypted_body.content, Colon)
        content == IF Len(parts) >= 2 THEN parts[2] ELSE <<>>
        key == CipherKey(self_sk, sender_pk)
        decoded == hex_decode(content)
        nonce == SplitAt(decoded.value, 12)[1]
        ciphertext == SplitAt(decoded.value, 12)[2]
        plaintext_bytes == aead_decrypt(key, nonce, ciphertext)
        decrypted_body == from_slice(plaintext_bytes.value)
    IN  IF parts[1] # EncryptedMarker
        THEN Fail("DecryptionError", "Unexpected variant")
        ELSE IF ~decoded.ok
        THEN Fail("DecryptionError", "Failed to decode hex: " \o decoded.err)
        ELSE IF SplitAtPanics(decoded.value, 12)
        THEN Panic("split_at: mid > len")
        ELSE IF ~plaintext_bytes.ok
        THEN Fail("DecryptionError", "Decryption failure!")
        ELSE IF ~decrypted_body.ok
        THEN Fail("DecryptionError", "Failed to deserialize body")
        ELSE OkOf(decrypted_body.value)

\* MessageBody::encrypt
MessageBody_encrypt(body, self_sk, destination_pk, nonce) ==
    IF body.tag = "Unencrypted"
    THEN encrypt_message_body(body, self_sk, destination_pk, nonce)
    ELSE OkOf(body)

\* MessageBody::decrypt
MessageBody_decrypt(body, self_sk, sender_pk) ==
    IF body.tag = "Encrypted"
    THEN decrypt_message_body(body, self_sk, sender_pk)
    ELSE OkOf(body)

\* the recorded content length as a count of characters instead of bytes
ContentLenInChars(data) == Len(data.message_raw_content)

\* data.message_raw_content.len(): the length of the content in bytes
ContentLen(data) == Len(as_bytes(data.message_raw_content))

\* MessageData::encrypt_message_data
encrypt_message_data(data, self_sk, destination_pk, nonce) ==
    LET key == CipherKey(self_sk, destination_pk)
        schema_str == to_str(data.message_content_schema)
        combined_content == data.message_raw_content \o schema_str
        ciphertext == aead_encrypt(key, nonce, as_bytes(combined_content))
        nonce_and_ciphertext == nonce \o ciphertext
        content_len == to_le_bytes(ContentLen(data))
        content_schema_len == to_le_bytes(Len(as_bytes(schema_str)))
        length_prefixed_nonce_and_ciphertext ==
            content_len \o content_schema_len \o nonce_and_ciphertext
    IN  OkOf(EncryptedZooData(
            EncryptedPrefix \o hex_encode(length_prefixed_nonce_and_ciphertext)))

\* MessageData::decrypt_message_data
decrypt_message_data(encrypted_data, self_sk, sender_pk) ==
    LET parts == split(encrypted_data.content, Colon)
        content == IF Len(parts) >= 2 THEN parts[2] ELSE <<>>
        key == CipherKey(self_sk, sender_pk)
        decoded == hex_decode(content)
        content_len_bytes == SplitAt(decoded.value, 8)[1]
        remainder1 == SplitAt(decoded.value, 8)[2]
        remainder2 == SplitAt(remainder1, 8)[2]
        nonce == SplitAt(remainder2, 12)[1]
        ciphertext == SplitAt(remainder2, 12)[2]
        content_len == from_le_bytes(content_len_bytes)
        plaintext_bytes == aead_decrypt(key, nonce, ciphertext)
        content_bytes == SplitAt(plaintext_bytes.value, content_len)[1]
        schema_bytes == SplitAt(plaintext_bytes.value, content_len)[2]
        raw_content == from_utf8(content_bytes)
        schema_text == from_utf8(schema_bytes)
        schema == from_str(schema_text.value)
    IN  IF parts[1] # EncryptedMarker
        THEN Fail("DecryptionError", "Unexpected variant")
        ELSE IF ~decoded.ok
        THEN Fail("DecryptionError", "Failed to decode hex: " \o decoded.err)
        ELSE IF \/ SplitAtPanics(decoded.value, 8)
                \/ SplitAtPanics(remainder1, 8)
                \/ SplitAtPanics(remainder2, 12)
        THEN Panic("split_at: mid > len")
        ELSE IF ~plaintext_bytes.ok
        THEN Fail("DecryptionError", "Decryption failure!")
        ELSE IF SplitAtPanics(plaintext_bytes.value, content_len)
        THEN Panic("split_at: mid > len")
        ELSE IF ~raw_content.ok
        THEN Fail("DecryptionError", "Failed to decode decrypted content")
        ELSE IF ~schema_text.ok
        THEN Fail("DecryptionError", "Failed to decode decrypted content schema")
        ELSE IF ~schema.some
        THEN Fail("DecryptionError", "Failed to parse schema")
        ELSE OkOf(UnencryptedData(raw_content.value, schema.value))

\* MessageData::encrypt that encrypts the envelope of an Encrypted content
\* once more, as text
MessageData_encrypt_again(data, self_sk, destination_pk, nonce) ==
    IF data.tag = "Unencrypted"
    THEN encrypt_message_data(data, self_sk, destination_pk, nonce)
    ELSE encrypt_message_data(UnencryptedData(data.content, "TextContent"),
                              self_sk, destination_pk, nonce)

\* MessageData::encrypt
MessageData_encrypt(data, self_sk, destination_pk, nonce) ==
    IF data.tag = "Unencrypted"
    THEN encrypt_message_data(data, self_sk, destination_pk, nonce)
    ELSE OkOf(data)

\* MessageData::decrypt
MessageData_decrypt(data, self_sk, sender_pk) ==
    IF data.tag = "Encrypted"
    THEN decrypt_message_data(data, self_sk, sender_pk)
    ELSE OkOf(data)

\* encrypt_outer_layer without the test of the declared encryption method
encrypt_outer_layer_any_method(m, self_sk, destination_pk, nonce) ==
    IF m.body.tag = "Encrypted"
    THEN Fail("AlreadyEncrypted", "Message body is already encrypted")
    ELSE LET r == MessageBody_encrypt(m.body, self_sk, destination_pk, nonce)
         IN  IF r.ok
             THEN OkOf([m EXCEPT !.body = r.value,
                                 !.encryption = "DiffieHellmanChaChaPoly1305"])
             ELSE r

\* ZooMessage::encrypt_outer_layer
encrypt_outer_layer(m, self_sk, destination_pk, nonce) ==
    IF m.body.tag = "Encrypted"
    THEN Fail("AlreadyEncrypted", "Message body is already encrypted")
    ELSE IF m.encryption = "None"
    THEN Fail("AlreadyEncrypted", "Message encryption method is None")
    ELSE LET r == MessageBody_encrypt(m.body, self_sk, destination_pk, nonce)
         IN  IF r.ok
             THEN OkOf([m EXCEPT !.body = r.value,
                                 !.encryption = "DiffieHellmanChaChaPoly1305"])
             ELSE r

\* encrypt_inner_layer that also blanks the sender's subidentity
encrypt_inner_layer_hiding_sender(m, self_sk, destination_pk, nonce) ==
    IF m.body.tag = "Unencrypted"
    THEN LET r == MessageData_encrypt(m.body.message_data, self_sk, destination_pk, nonce)
         IN  IF r.ok
             THEN OkOf([m EXCEPT !.body.message_data = r.value,
                                 !.body.internal_metadata.sender_subidentity = <<>>])
             ELSE r
    ELSE OkOf(m)

\* ZooMessage::encrypt_inner_layer
encrypt_inner_layer(m, self_sk, destination_pk, nonce) ==
    IF m.body.tag = "Unencrypted"
    THEN LET r == MessageData_encrypt(m.body.message_data, self_sk, destination_pk, nonce)
         IN  IF r.ok THEN OkOf([m EXCEPT !.body.message_data = r.value]) ELSE r
    ELSE OkOf(m)

decrypt_outer_layer_strict(m, self_sk, sender_pk) ==
    IF m.body.tag = "Encrypted"
    THEN LET r == MessageBody_decrypt(m.body, self_sk, sender_pk)
         IN  IF r.ok THEN OkOf([m EXCEPT !.body = r.value]) ELSE r
    ELSE Fail("DecryptionError", "Body is not encrypted")

\* ZooMessage::decrypt_outer_layer
decrypt_outer_layer(m, self_sk, sender_pk) ==
    IF m.body.tag = "Encrypted"
    THEN LET r == MessageBody_decrypt(m.body, self_sk, sender_pk)
         IN  IF r.ok THEN OkOf([m EXCEPT !.body = r.value]) ELSE r
    ELSE OkOf(m)

decrypt_inner_layer_lenient(m, self_sk, sender_pk) ==
    IF m.body.tag = "Unencrypted"
    THEN IF m.body.message_data.tag = "Encrypted"
         THEN LET r == MessageData_decrypt(m.body.message_data, self_sk, sender_pk)
              IN  IF r.ok THEN OkOf([m EXCEPT !.body.message_data = r.value]) ELSE r
         ELSE OkOf(m)
    ELSE OkOf(m)

\* ZooMessage::decrypt_inner_layer
decrypt_inner_layer(m, self_sk, sender_pk) ==
    IF m.body.tag = "Unencrypted"
    THEN IF m.body.message_data.tag = "Encrypted"
         THEN LET r == MessageData_decrypt(m.body.message_data, self_sk, sender_pk)
              IN  IF r.ok THEN OkOf([m EXCEPT !.body.message_data = r.value]) ELSE r
         ELSE OkOf(m)
    ELSE Fail("EncryptionError", "Body is encrypted. Can't decrypt inner layer")

-----------------------------------------------------------------------------
(* Messages in use: a sender composes a message, the two layers are put on *)
(* with the sender's secret and the recipient's public key and taken off   *)
(* with the recipient's secret and the sender's public key.                *)

NoMessage == [none |-> TRUE]
NoCall == [op |-> "none", self_sk |-> 0, other_pk |-> 0, input |-> NoMessage,
           result |-> Fail("none", "")]
NoSeal == [plain |-> NoMessage, self_sk |-> 0, other_pk |-> 0]
NoAlter == [kind |-> "none", layer |-> "none"]

\* the contents a message is composed with: the empty string, a string that
\* ends with the string form of a schema, and a string with a two-byte
\* character and a quote
Contents ==
    { <<>>,
      Str(<<"a">>) \o to_str("TextContent"),
      <<233>> \o Str(<<"\"">>) }

Subidentities == { Str(<<"m">>) }

\* the sender's and the recipient's key pair of a message under attack, its
\* schema and the nonce it is encrypted with
AttackParties == { <<2, 3>> }
AttackSchema == "TextContent"
AttackNonce == NonceOf(1)

ExternalMetadata == [sender |-> AtAt \o IdA, recipient |-> AtAt \o IdP]

Compose(content, schema, sender_subidentity, method, a, b) ==
    /\ message = NoMessage
    /\ message' = ZooMessage(
           UnencryptedBody(UnencryptedData(content, schema),
                           InternalMetadata(sender_subidentity, <<>>)),
           method, ExternalMetadata)
    /\ parties' = [sender |-> a, recipient |-> b]
    /\ composed' = message'
    /\ UNCHANGED <<sealedBody, sealedData, last, altered>>
    /\ UNCHANGED <<regVars, nameVars, addrVars, keyVars>>

\* the caller keeps its message when the call fails
Called(op, self_sk, other_pk, r) ==
    /\ last' = [op |-> op, self_sk |-> self_sk, other_pk |-> other_pk,
                input |-> message, result |-> r]
    /\ message' = IF r.ok THEN r.value ELSE message

EncryptOuter(self_sk, destination_pk, nonce) ==
    /\ message # NoMessage
    /\ LET r == encrypt_outer_layer(message, self_sk, destination_pk, nonce)
       IN  /\ Called("encrypt_outer", self_sk, destination_pk, r)
           /\ sealedBody' = IF r.ok
                            THEN [plain |-> message.body, self_sk |-> self_sk,
                                  other_pk |-> destination_pk]
                            ELSE sealedBody
    /\ UNCHANGED <<parties, composed, sealedData, altered>>
    /\ UNCHANGED <<regVars, nameVars, addrVars, keyVars>>

EncryptInner(self_sk, destination_pk, nonce) ==
    /\ message # NoMessage
    /\ LET r == encrypt_inner_layer(message, self_sk, destination_pk, nonce)
       IN  /\ Called("encrypt_inner", self_sk, destination_pk, r)
           /\ sealedData' = IF r.ok /\ r.value # message
                            THEN [plain |-> message.body.message_data,
                                  self_sk |-> self_sk, other_pk |-> destination_pk]
                            ELSE sealedData
    /\ UNCHANGED <<parties, composed, sealedBody, altered>>
    /\ UNCHANGED <<regVars, nameVars, addrVars, keyVars>>

DecryptOuter(self_sk, sender_pk) ==
    /\ message # NoMessage
    /\ Called("decrypt_outer", self_sk, sender_pk,
              decrypt_outer_layer(message, self_sk, sender_pk))
    /\ UNCHANGED <<parties, composed, sealedBody, sealedData, altered>>
    /\ UNCHANGED <<regVars, nameVars, addrVars, keyVars>>

DecryptInner(self_sk, sender_pk) ==
    /\ message # NoMessage
    /\ Called("decrypt_inner", self_sk, sender_pk,
              decrypt_inner_layer(message, self_sk, sender_pk))
    /\ UNCHANGED <<parties, composed, sealedBody, sealedData, altered>>
    /\ UNCHANGED <<regVars, nameVars, addrVars, keyVars>>

-----------------------------------------------------------------------------
(* The envelope in transit: between the sender and the recipient the       *)
(* content string of the outermost Encrypted value can become any string.  *)

\* ZooMessage::is_body_currently_encrypted
is_body_currently_encrypted(m) == m.body.tag = "Encrypted"

\* ZooMessage::is_content_currently_encrypted
is_content_currently_encrypted(m) ==
    IF m.body.tag = "Encrypted" THEN TRUE ELSE m.body.message_data.tag = "Encrypted"

\* ZooMessage::get_encryption_status
get_encryption_status(m) ==
    IF is_body_currently_encrypted(m) THEN "BodyEncrypted"
    ELSE IF is_content_currently_encrypted(m) THEN "ContentEncrypted"
    ELSE "NotCurrentlyEncrypted"

\* the layer whose envelope a recipient meets first
OutermostLayer(m) ==
    IF m.body.tag = "Encrypted" THEN "body"
    ELSE IF m.body.message_data.tag = "Encrypted" THEN "data"
    ELSE "none"

EnvelopeOf(m) ==
    IF m.body.tag = "Encrypted" THEN m.body.content ELSE m.body.message_data.content

WithEnvelope(m, content) ==
    IF m.body.tag = "Encrypted"
    THEN [m EXCEPT !.body.content = content]
    ELSE [m EXCEPT !.body.message_data.content = content]

\* the bytes of an envelope the layers produced: the hex digits after "encrypted:"
EnvelopeBytes(content) ==
    hex_decode(SubSeq(content, Len(EncryptedPrefix) + 1, Len(content))).value

\* the part of the envelope of a layer that byte number pos belongs to
PartAt(layer, pos) ==
    IF layer = "data" /\ pos <= 8 THEN "len_content"
    ELSE IF layer = "data" /\ pos <= 16 THEN "len_schema"
    ELSE IF pos <= (IF layer = "data" THEN 16 ELSE 0) + 12 THEN "nonce"
    ELSE "ciphertext"

\* the envelope with byte number pos changed by delta
AlterByte(content, pos, delta) ==
    EncryptedPrefix
    \o hex_encode([EnvelopeBytes(content) EXCEPT ![pos] = (@ + delta) % 256])

\* the byte positions that are changed: in each part of either layer, and the
\* last byte of the tag
AlterPositions(content) ==
    {1, 9, 17, 29, Len(EnvelopeBytes(content))}

AlterDeltas == {1, 255}

\* strings that are no envelope of the layers: no marker, marker without
\* digits, digits that are no hex, an odd number of digits, fewer bytes than
\* the nonce and the length prefix take
Malformed(content) ==
    { [kind |-> "empty", content |-> <<>>],
      [kind |-> "no_marker",
       content |-> SubSeq(content, Len(EncryptedPrefix) + 1, Len(content))],
      [kind |-> "marker_only", content |-> EncryptedMarker],
      [kind |-> "not_hex", content |-> EncryptedPrefix \o Str(<<"z", "z">>)],
      [kind |-> "odd_hex", content |-> EncryptedPrefix \o Str(<<"a", "b", "c">>)],
      [kind |-> "short",
       content |-> EncryptedPrefix \o hex_encode(SubSeq(EnvelopeBytes(content), 1, 4))] }

Alterations(m) ==
    { [kind |-> PartAt(OutermostLayer(m), pos),
       content |-> AlterByte(EnvelopeOf(m), pos, delta)] :
          pos \in AlterPositions(EnvelopeOf(m)), delta \in AlterDeltas }
    \cup Malformed(EnvelopeOf(m))

\* the envelope is changed once on its way
Alter ==
    /\ message # NoMessage
    /\ altered = NoAlter
    /\ OutermostLayer(message) # "none"
    /\ \E a \in Alterations(message) :
           /\ message' = WithEnvelope(message, a.content)
           /\ altered' = [kind |-> a.kind, layer |-> OutermostLayer(message)]
    /\ UNCHANGED <<parties, composed, sealedBody, sealedData, last>>
    /\ UNCHANGED <<regVars, nameVars, addrVars, keyVars>>

-----------------------------------------------------------------------------
(* ZooName (schemas/zoo_name.rs).  Strings are sequences of characters, as *)
(* in the registry; the letters that have two cases are the ASCII ones.    *)

LowerLetters ==
    <<"a", "b", "c", "d", "e", "f", "g", "h", "i", "j", "k", "l", "m",
      "n", "o", "p", "q", "r", "s", "t", "u", "v", "w", "x", "y", "z">>
UpperLetters ==
    <<"A", "B", "C", "D", "E", "F", "G", "H", "I", "J", "K", "L", "M",
      "N", "O", "P", "Q", "R", "S", "T", "U", "V", "W", "X", "Y", "Z">>
DigitChars == {"0", "1", "2", "3", "4", "5", "6", "7", "8", "9"}

IsUpper(c) == \E i \in 1..Len(UpperLetters) : UpperLetters[i] = c
IsLower(c) == \E i \in 1..Len(LowerLetters) : LowerLetters[i] = c

to_lowercase_char(c) ==
    IF IsUpper(c)
    THEN LowerLetters[CHOOSE i \in 1..Len(UpperLetters) : UpperLetters[i] = c]
    ELSE c

\* str::to_lowercase
to_lowercase(s) == [i \in 1..Len(s) |-> to_lowercase_char(s[i])]

\* str::contains(pattern)
str_contains(s, p) ==
    \E i \in 1..(Len(s) - Len(p) + 1) : SubSeq(s, i, i + Len(p) - 1) = p

Slash == <<"/">>

\* Option<T>
None == <<>>
Some(x) == <<x>>
is_some(o) == o # None
unwrap(o) == o[1]

\* ZooSubidentityType and its Display form
SubidentityTypes == {"Agent", "Device"}
type_to_string(t) ==
    IF t = "Agent" THEN <<"a", "g", "e", "n", "t">>
    ELSE <<"d", "e", "v", "i", "c", "e">>

IsTypeToken(part) == \E t \in SubidentityTypes : part = type_to_string(t)

\* [a-zA-Z0-9_]
IsWordChar(c) == IsLower(c) \/ IsUpper(c) \/ c \in DigitChars \/ c = "_"

\* ^@@[a-zA-Z0-9\_\.]+(\.zoo|\.arb-sep-zoo|\.sepolia-zoo|\.sep-zoo)$
node_name_regex(part) ==
    \E ending \in VALID_ENDINGS :
        /\ starts_with(part, AtAt)
        /\ ends_with(part, ending)
        /\ Len(part) - Len(AtAt) - Len(ending) >= 1
        /\ \A i \in (Len(AtAt) + 1)..(Len(part) - Len(ending)) :
               IsWordChar(part[i]) \/ part[i] = "."

\* ^[a-zA-Z0-9_]*$
re(part) == \A i \in 1..Len(part) : IsWordChar(part[i])

HasValidEnding(node_name) == \E ending \in VALID_ENDINGS : ends_with(node_name, ending)

\* Result<_, &'static str>
NameErr(text) == Fail("str", text)
Unit == "()"

ThirdPartAcceptedAnyCase(part) == IsTypeToken(to_lowercase(part))

\* the check of validate_name's loop on the third part
ThirdPartAccepted(part) == IsTypeToken(part)

\* the body of validate_name's loop for one part; index counts from 0
PartError(index, part) ==
    IF index = 0
    THEN IF str_contains(part, Slash) THEN "Root node name cannot contain '/'." ELSE ""
    ELSE IF index = 2 /\ ~ThirdPartAccepted(part)
    THEN "The third part should either be 'agent' or 'device'."
    ELSE IF index = 3 /\ ~re(part)
    THEN "The fourth part (name after 'agent' or 'device') should be alphanumeric or underscore."
    ELSE IF index # 0 /\ index # 2 /\ (~re(part) \/ str_contains(part, SufZoo))
    THEN "Name parts should be alphanumeric or underscore and not contain '.zoo'."
    ELSE ""

\* validate_name's loop: the error of the first part that has one
PartsError(parts) ==
    IF \E i \in 1..Len(parts) : PartError(i - 1, parts[i]) # ""
    THEN LET i == CHOOSE k \in 1..Len(parts) :
                      /\ PartError(k - 1, parts[k]) # ""
                      /\ \A m \in 1..(k - 1) : PartError(m - 1, parts[m]) = ""
         IN  PartError(i - 1, parts[i])
    ELSE ""

validate_parts(parts) ==
    IF ~(Len(parts) >= 1 /\ Len(parts) <= 4)
    THEN NameErr("Name should have one to four parts: node, profile, type (device or agent), and name.")
    ELSE IF ~starts_with(parts[1], AtAt) \/ ~HasValidEnding(parts[1])
    THEN NameErr("Node part of the name should start with '@@' and end with a valid ending ('.zoo', '.arb-sep-zoo', '.sep-zoo', etc.).")
    ELSE IF ~node_name_regex(parts[1])
    THEN NameErr("Node part of the name contains invalid characters.")
    ELSE IF PartsError(parts) # ""
    THEN NameErr(PartsError(parts))
    ELSE IF Len(parts) = 3 /\ IsTypeToken(parts[3])
    THEN NameErr("If type is 'agent' or 'device', a fourth part is expected.")
    ELSE OkOf(Unit)

validate_name(raw_name) == validate_parts(split(raw_name, "/"))

\* raw_name.splitn(2, '/'): the first segment and, if there is a '/', the rest
splitn2(s) ==
    IF \E i \in 1..Len(s) : s[i] = "/"
    THEN LET i == CHOOSE k \in 1..Len(s) : s[k] = "/" /\ \A m \in 1..(k - 1) : s[m] # "/"
         IN  <<SubSeq(s, 1, i - 1), SubSeq(s, i + 1, Len(s))>>
    ELSE <<s>>

WithPrefixAlways(node_name) == AtAt \o node_name

WithPrefix(node_name) ==
    IF ~starts_with(node_name, AtAt) THEN AtAt \o node_name ELSE node_name

WithEnding(node_name) ==
    IF ~HasValidEnding(node_name) THEN node_name \o SufZoo ELSE node_name

correct_parts(parts) ==
    IF Len(parts) > 1
    THEN WithEnding(WithPrefix(parts[1])) \o Slash \o parts[2]
    ELSE WithEnding(WithPrefix(parts[1]))

correct_node_name(raw_name) == correct_parts(splitn2(raw_name))

ZooNameOf(full_name, node_name, profile_name, subidentity_type, subidentity_name) ==
    [full_name |-> full_name,
     node_name |-> node_name,
     profile_name |-> profile_name,
     subidentity_type |-> subidentity_type,
     subidentity_name |-> subidentity_name]

TypeOfToken(part) == CHOOSE t \in SubidentityTypes : part = type_to_string(t)

\* ZooName::new after the name was corrected and validated
new_from_parts(raw_name, parts) ==
    IF Len(parts) >= 3 /\ ~IsTypeToken(parts[3])
    THEN Panic("Invalid subidentity type")
    ELSE OkOf(ZooNameOf(
             to_lowercase(raw_name),
             to_lowercase(parts[1]),
             IF Len(parts) >= 2 THEN Some(to_lowercase(parts[2])) ELSE None,
             IF Len(parts) >= 3 THEN Some(TypeOfToken(parts[3])) ELSE None,
             IF Len(parts) >= 4 THEN Some(parts[4]) ELSE None))

new_corrected(raw_name) ==
    IF ~validate_name(raw_name).ok
    THEN validate_name(raw_name)
    ELSE new_from_parts(raw_name, split(raw_name, "/"))

new(raw_name) == new_corrected(correct_node_name(raw_name))

\* impl PartialEq for ZooName
lower_option(o) == IF is_some(o) THEN Some(to_lowercase(unwrap(o))) ELSE None

eq(a, b) ==
    /\ to_lowercase(a.full_name) = to_lowercase(b.full_name)
    /\ to_lowercase(a.node_name) = to_lowercase(b.node_name)
    /\ lower_option(a.profile_name) = lower_option(b.profile_name)
    /\ a.subidentity_type = b.subidentity_type
    /\ lower_option(a.subidentity_name) = lower_option(b.subidentity_name)

\* impl Display for ZooName
to_string(name) == name.full_name

InvalidNameFormat(name) == [ok |-> FALSE, err |-> "InvalidNameFormat", name |-> name]

from_node_name(node_name) ==
    IF str_contains(node_name, Slash)
    THEN InvalidNameFormat(node_name)
    ELSE IF new(node_name).ok \/ new(node_name).err = "panic"
    THEN new(node_name)
    ELSE InvalidNameFormat(node_name)

from_node_and_profile_names(node_name, profile_name) ==
    new(to_lowercase(correct_node_name(node_name)) \o Slash \o to_lowercase(profile_name))

from_node_and_profile_names_and_type_and_name(node_name, profile_name, zoo_type, name) ==
    new(to_lowercase(correct_node_name(node_name)) \o Slash \o to_lowercase(profile_name)
        \o Slash \o type_to_string(zoo_type) \o Slash \o to_lowercase(name))

has_no_subidentities(name) ==
    ~is_some(name.profile_name) /\ ~is_some(name.subidentity_type)

extract_profile(name) ==
    IF has_no_subidentities(name)
    THEN NameErr("This ZooName does not include a profile.")
    ELSE IF ~is_some(name.profile_name)
    THEN Panic("called Option::unwrap() on a None value")
    ELSE OkOf(ZooNameOf(name.node_name \o Slash \o unwrap(name.profile_name),
                        name.node_name, name.profile_name, None, None))

extract_node_keeping_full_name(name) ==
    ZooNameOf(name.full_name, name.node_name, None, None, None)

extract_node(name) == ZooNameOf(name.node_name, name.node_name, None, None, None)

contains_zip_only(self, other) ==
    \A i \in 1..Len(split(self.full_name, "/")) :
        i <= Len(split(other.full_name, "/"))
        => split(self.full_name, "/")[i] = split(other.full_name, "/")[i]

\* ZooName::contains: the zip stops at the shorter list
contains(self, other) ==
    IF Len(split(self.full_name, "/")) > Len(split(other.full_name, "/"))
    THEN FALSE
    ELSE \A i \in 1..Len(split(self.full_name, "/")) :
             split(self.full_name, "/")[i] = split(other.full_name, "/")[i]

\* a String of the message layer (code points) as the characters of a name;
\* the subidentities of the model are ASCII
CharOf(cp) ==
    IF cp >= 32 /\ cp <= 95 THEN AsciiLow[cp - 31]
    ELSE IF cp >= 97 /\ cp <= 126 THEN AsciiHigh[cp - 96]
    ELSE "?"

Chars(s) == [i \in 1..Len(s) |-> CharOf(s[i])]

MessageBodyMissing == [ok |-> FALSE, err |-> "MessageBodyMissing"]
InvalidOperation(text) == [ok |-> FALSE, err |-> "InvalidOperation", text |-> text]

\* format!("/{}", subidentity), or "" for the empty subidentity
SubidentitySuffix(subidentity) ==
    IF subidentity = <<>> THEN <<>> ELSE Slash \o subidentity

\* the second half of both from_zoo_message_using_*_subidentity functions:
\* the node is parsed, then the node's string form with the subidentity
NodeWithSubidentity(node_raw, subidentity) ==
    IF ~new(node_raw).ok
    THEN IF new(node_raw).err = "panic" THEN new(node_raw)
         ELSE InvalidNameFormat(node_raw)
    ELSE IF new(to_string(new(node_raw).value) \o SubidentitySuffix(subidentity)).ok
            \/ new(to_string(new(node_raw).value) \o SubidentitySuffix(subidentity)).err = "panic"
    THEN new(to_string(new(node_raw).value) \o SubidentitySuffix(subidentity))
    ELSE InvalidNameFormat(to_string(new(node_raw).value) \o SubidentitySuffix(subidentity))

from_zoo_message_using_sender_subidentity(m) ==
    IF m.body.tag # "Unencrypted"
    THEN MessageBodyMissing
    ELSE NodeWithSubidentity(m.external_metadata.sender,
                             Chars(m.body.internal_metadata.sender_subidentity))

from_zoo_message_using_recipient_subidentity(m) ==
    IF m.body.tag # "Unencrypted"
    THEN InvalidOperation("Cannot process encrypted ZooMessage")
    ELSE NodeWithSubidentity(m.external_metadata.recipient,
                             Chars(m.body.internal_metadata.recipient_subidentity))

\* The names the callers pass in: bare and complete node names in both
\* cases, with and without profile, type and name, and malformed ones
Path(list) == join(list, Slash)

NameNodes ==
    { <<"a">>, <<"A">>, <<"a">> \o SufZoo, <<"a", ".", "Z", "O", "O">>,
      AtAt \o <<"a">> \o SufZoo, <<"a">> \o SufSepZoo, <<"a", "!">>, <<>> }
ProfiledNodes == { <<"a">>, <<"A">>, <<"a", ".", "Z", "O", "O">>, <<"a", "!">> }
NameProfiles == { <<"p">>, <<"P">>, <<"p">> \o SufZoo, <<>> }
TypeTokens ==
    { type_to_string("Agent"), <<"A", "g", "e", "n", "t">>,
      type_to_string("Device"), <<"x">> }
SubNames == { <<"n">>, <<"N">>, <<"n", "!">> }

RawNames ==
    NameNodes
    \cup { Path(<<n, p>>) : n \in ProfiledNodes, p \in NameProfiles }
    \cup { Path(<<<<"a">>, <<"p">>, t>>) : t \in TypeTokens }
    \cup { Path(<<<<"a">>, p, t, s>>) :
               p \in {<<"p">>, <<"P">>}, t \in TypeTokens, s \in SubNames }
    \cup { Path(<<<<"a">>, <<"p">>, type_to_string("Agent"), <<"n">>, <<"z">>>>),
           Path(<<<<"a">>, <<"p">>, type_to_string("Agent"), <<>>>>),
           Path(<<<<"a">>, <<>>, <<>>>>),
           Path(<<<<"a">>, <<>>, type_to_string("Agent"), <<"n">>>>) }

NoName ==
    [op |-> "none", args |-> <<>>,
     result |-> [ok |-> FALSE, err |-> "none", text |-> ""]]
NoAnswer == [asked |-> FALSE]

Record(op, args, result) ==
    /\ earlier' = parsed
    /\ parsed' = [op |-> op, args |-> args, result |-> result]
    /\ answer' = NoAnswer
    /\ UNCHANGED <<regVars, msgVars, addrVars, keyVars>>

New(raw_name) == Record("new", <<raw_name>>, new(raw_name))

\* the string form of the latest identity is parsed again
Reparse ==
    /\ parsed.result.ok
    /\ New(to_string(parsed.result.value))

FromNodeName(node_name) ==
    Record("from_node_name", <<node_name>>, from_node_name(node_name))

FromNodeAndProfileNames(node_name, profile_name) ==
    Record("from_node_and_profile_names", <<node_name, profile_name>>,
           from_node_and_profile_names(node_name, profile_name))

FromNodeAndProfileNamesAndTypeAndName(node_name, profile_name, zoo_type, name) ==
    Record("from_node_and_profile_names_and_type_and_name",
           <<node_name, profile_name, type_to_string(zoo_type), name>>,
           from_node_and_profile_names_and_type_and_name(
               node_name, profile_name, zoo_type, name))

ExtractNode ==
    /\ parsed.result.ok
    /\ Record("extract_node", <<to_string(parsed.result.value)>>,
              OkOf(extract_node(parsed.result.value)))

ExtractProfile ==
    /\ parsed.result.ok
    /\ Record("extract_profile", <<to_string(parsed.result.value)>>,
              extract_profile(parsed.result.value))

Contains ==
    /\ earlier.result.ok /\ parsed.result.ok
    /\ \E self \in {earlier.result.value, parsed.result.value},
          other \in {earlier.result.value, parsed.result.value} :
           answer' = [asked |-> TRUE, self |-> self, other |-> other,
                      value |-> contains(self, other)]
    /\ UNCHANGED <<earlier, parsed>>
    /\ UNCHANGED <<regVars, msgVars, addrVars, keyVars>>

\* the subidentities a message is addressed with: none, a profile, a profile
\* in upper case, and two segments without a name
AddressedSubidentities ==
    { <<>>, Str(<<"m">>), Str(<<"M">>), Str(<<"m", "/", "x">>) }

\* a message with both subidentities set
ComposeAddressed(sender_subidentity, recipient_subidentity, a, b) ==
    /\ message = NoMessage
    /\ message' = ZooMessage(
           UnencryptedBody(UnencryptedData(<<>>, "TextContent"),
                           InternalMetadata(sender_subidentity, recipient_subidentity)),
           "DiffieHellmanChaChaPoly1305", ExternalMetadata)
    /\ parties' = [sender |-> a, recipient |-> b]
    /\ composed' = message'
    /\ UNCHANGED <<sealedBody, sealedData, last, altered>>
    /\ UNCHANGED <<regVars, nameVars, addrVars, keyVars>>

\* the result of a from_zoo_message_* call, with the state of the body it saw
RecordFromMessage(op, node, subidentity, result) ==
    /\ message # NoMessage
    /\ earlier' = parsed
    /\ parsed' = [op |-> op, args |-> <<node>>, result |-> result,
                  body |-> message.body.tag, subidentity |-> subidentity]
    /\ answer' = NoAnswer
    /\ UNCHANGED <<regVars, msgVars, addrVars, keyVars>>

FromMessageSender ==
    /\ message # NoMessage
    /\ RecordFromMessage("from_zoo_message_using_sender_subidentity",
           message.external_metadata.sender,
           IF message.body.tag = "Unencrypted"
           THEN Chars(message.body.internal_metadata.sender_subidentity) ELSE <<>>,
           from_zoo_message_using_sender_subidentity(message))

FromMessageRecipient ==
    /\ message # NoMessage
    /\ RecordFromMessage("from_zoo_message_using_recipient_subidentity",
           message.external_metadata.recipient,
           IF message.body.tag = "Unencrypted"
           THEN Chars(message.body.internal_metadata.recipient_subidentity) ELSE <<>>,
           from_zoo_message_using_recipient_subidentity(message))

-----------------------------------------------------------------------------
(* OnchainIdentity::validate_address (zoo_registry.rs) *)

Http == <<"h", "t", "t", "p", ":", "/", "/">>
Https == <<"h", "t", "t", "p", "s", ":", "/", "/">>
Localhost == <<"l", "o", "c", "a", "l", "h", "o", "s", "t">>
LocalhostColon == Localhost \o <<":">>
Loopback == <<"1", "2", "7", ".", "0", ".", "0", ".", "1">>
Port443 == <<":", "4", "4", "3">>
Port80 == <<":", "8", "0">>

\* str::replace(from, to): every occurrence, from the left, without overlap
RECURSIVE replace(_, _, _)
replace(s, from, to) ==
    IF Len(s) < Len(from) THEN s
    ELSE IF starts_with(s, from)
    THEN to \o replace(SubSeq(s, Len(from) + 1, Len(s)), from, to)
    ELSE <<Head(s)>> \o replace(Tail(s), from, to)

\* str::replacen(from, to, 1): the first occurrence only
RECURSIVE replacen1(_, _, _)
replacen1(s, from, to) ==
    IF Len(s) < Len(from) THEN s
    ELSE IF starts_with(s, from)
    THEN to \o SubSeq(s, Len(from) + 1, Len(s))
    ELSE <<Head(s)>> \o replacen1(Tail(s), from, to)

WithoutScheme(first_address) == replace(replace(first_address, Http, <<>>), Https, <<>>)

LocalhostRewrittenAnywhere(addr) ==
    IF str_contains(addr, Localhost)
    THEN replacen1(addr, Localhost, Loopback)
    ELSE addr

LocalhostRewritten(addr) ==
    IF starts_with(addr, LocalhostColon)
    THEN replacen1(addr, Localhost, Loopback)
    ELSE addr

WithDefaultPort(first_address, addr) ==
    IF ~str_contains(addr, <<":">>)
    THEN IF starts_with(first_address, Https) THEN addr \o Port443
         ELSE IF starts_with(first_address, Http) THEN addr \o Port80
         ELSE addr
    ELSE addr

validate_address(first_address) ==
    OkOf(WithDefaultPort(first_address, LocalhostRewritten(WithoutScheme(first_address))))

\* the addresses of the model: each scheme or none, in front of a host, a
\* port or none, and a tail or none (a path, or a second scheme)
AddressSchemes == { <<>>, Http, Https }
AddressHosts == { Localhost, <<"e", "x", "a", "m", "p", "l", "e", ".", "c", "o", "m">>, <<"x", "l", "o", "c", "a", "l", "h", "o", "s", "t">>, <<"h">> }
AddressPorts == { <<>>, <<":", "1">>, <<":", "8", "0", "8", "0">>, <<":", "1", "2", "3", "4">> }
AddressTails == { <<>>, <<"/", "b", "y">>, Http }
Addresses ==
    { scheme \o host \o port \o tail :
           scheme \in AddressSchemes, host \in AddressHosts,
           port \in AddressPorts, tail \in AddressTails }

NoAddress == [input |-> <<>>, result |-> Fail("none", "")]

ValidateAddress(first_address) ==
    /\ address' = [input |-> first_address, result |-> validate_address(first_address)]
    /\ UNCHANGED <<regVars, msgVars, nameVars, keyVars>>

-----------------------------------------------------------------------------

Init ==
    /\ clock = 0
    /\ chainVer = 1
    /\ cache = <<>>
    /\ lastWriter = <<>>
    /\ call = [c \in Callers |-> IdleCall]
    /\ task = [t \in Tasks |-> FreeTask]
    /\ message = NoMessage
    /\ composed = NoMessage
    /\ parties = [sender |-> 0, recipient |-> 0]
    /\ sealedBody = NoSeal
    /\ sealedData = NoSeal
    /\ last = NoCall
    /\ altered = NoAlter
    /\ earlier = NoName
    /\ parsed = NoName
    /\ answer = NoAnswer
    /\ address = NoAddress
    /\ cacheTime = NoCacheTime

\* one client and the refresh tasks its reads spawn
Next ==
    \/ \E raw \in RawIdentities, f \in ForceOptions : Start(1, raw, f)
    \/ CheckCache(1)
    \/ \E ok \in BOOLEAN : CallLookup1(1, ok)
    \/ \E ok \in BOOLEAN : CallLookup2(1, ok)
    \/ CallInsert(1)
    \/ Return(1)
    \/ \E t \in Tasks, ok \in BOOLEAN : TaskLookup1(t, ok)
    \/ \E t \in Tasks, ok \in BOOLEAN : TaskLookup2(t, ok)
    \/ \E t \in Tasks : TaskInsert(t)
    \/ \E t \in Tasks : TaskExit(t)
    \/ Tick
    \/ ChainUpdate

Spec == Init /\ [][Next]_vars

\* the runtime schedules every spawned task: a task that can take its next
\* step eventually takes it
FairNext ==
    \/ Start(1, IdA, "None")
    \/ CheckCache(1)
    \/ \E ok \in BOOLEAN : CallLookup1(1, ok)
    \/ \E ok \in BOOLEAN : CallLookup2(1, ok)
    \/ CallInsert(1)
    \/ Return(1)
    \/ \E t \in Tasks, ok \in BOOLEAN : TaskLookup1(t, ok)
    \/ \E t \in Tasks, ok \in BOOLEAN : TaskLookup2(t, ok)
    \/ \E t \in Tasks : TaskInsert(t)
    \/ \E t \in Tasks : TaskExit(t)
    \/ Tick
    \/ ChainUpdate

FairSpec ==
    /\ Init /\ [][FairNext]_vars
    /\ \A t \in Tasks :
        /\ WF_vars(\E ok \in BOOLEAN : TaskLookup1(t, ok))
        /\ WF_vars(\E ok \in BOOLEAN : TaskLookup2(t, ok))
        /\ WF_vars(TaskInsert(t))

\* two clients calling at the same time, within one fresh window
RaceNext ==
    \/ \E c \in Callers, raw \in RawIdentities, f \in ForceOptions : Start(c, raw, f)
    \/ \E c \in Callers : CheckCache(c)
    \/ \E c \in Callers, ok \in BOOLEAN : CallLookup1(c, ok)
    \/ \E c \in Callers, ok \in BOOLEAN : CallLookup2(c, ok)
    \/ \E c \in Callers : CallInsert(c)
    \/ \E c \in Callers : Return(c)
    \/ RaceTick
    \/ ChainUpdateAny

RaceSpec == Init /\ [][RaceNext]_vars

\* a sender and a recipient exchanging one message through both layers
CryptoNext ==
    \/ \E content \in Contents, schema \in Schemas, sub \in Subidentities,
          method \in EncryptionMethods, a \in EncryptionStaticKeys,
          b \in EncryptionStaticKeys :
           Compose(content, schema, sub, method, a, b)
    \/ \E nonce \in Nonces :
           EncryptInner(parties.sender, EncryptionPublicKey(parties.recipient), nonce)
    \/ \E nonce \in Nonces :
           EncryptOuter(parties.sender, EncryptionPublicKey(parties.recipient), nonce)
    \/ DecryptOuter(parties.recipient, EncryptionPublicKey(parties.sender))
    \/ DecryptInner(parties.recipient, EncryptionPublicKey(parties.sender))

CryptoSpec == Init /\ [][CryptoNext]_vars

\* a message that is encrypted by its sender, changed at most once in
\* transit, and decrypted with the right keys, with a wrong secret or with a
\* wrong public key
AttackNext ==
    \/ \E content \in Contents, sub \in Subidentities, pair \in AttackParties :
           Compose(content, AttackSchema, sub, "DiffieHellmanChaChaPoly1305",
                   pair[1], pair[2])
    \/ /\ altered = NoAlter
       /\ EncryptInner(parties.sender, EncryptionPublicKey(parties.recipient), AttackNonce)
    \/ /\ altered = NoAlter
       /\ EncryptOuter(parties.sender, EncryptionPublicKey(parties.recipient), AttackNonce)
    \/ Alter
    \/ \E sk \in EncryptionStaticKeys, other \in EncryptionStaticKeys :
           /\ sk = parties.recipient \/ other = parties.sender
           /\ DecryptOuter(sk, EncryptionPublicKey(other))
    \/ \E sk \in EncryptionStaticKeys, other \in EncryptionStaticKeys :
           /\ sk = parties.recipient \/ other = parties.sender
           /\ DecryptInner(sk, EncryptionPublicKey(other))

AttackSpec == Init /\ [][AttackNext]_vars

\* identities made from strings, cut down to their node or profile, and
\* compared two at a time
NameNext ==
    \/ \E raw_name \in RawNames : New(raw_name)
    \/ Reparse
    \/ \E node_name \in NameNodes \cup {Path(<<<<"a">>, <<"p">>>>)} : FromNodeName(node_name)
    \/ \E node_name \in ProfiledNodes, profile_name \in NameProfiles :
           FromNodeAndProfileNames(node_name, profile_name)
    \/ \E node_name \in {<<"a">>, <<"A">>}, profile_name \in {<<"P">>},
          zoo_type \in SubidentityTypes, name \in SubNames :
           FromNodeAndProfileNamesAndTypeAndName(node_name, profile_name, zoo_type, name)
    \/ ExtractNode
    \/ ExtractProfile
    \/ Contains

NameSpec == Init /\ [][NameNext]_vars

\* a message is addressed, encrypted and decrypted, and at any moment its
\* sender and its recipient are read from it
IdentifyNext ==
    \/ \E s \in AddressedSubidentities, r \in AddressedSubidentities, pair \in AttackParties :
           ComposeAddressed(s, r, pair[1], pair[2])
    \/ EncryptOuter(parties.sender, EncryptionPublicKey(parties.recipient), AttackNonce)
    \/ DecryptOuter(parties.recipient, EncryptionPublicKey(parties.sender))
    \/ FromMessageSender
    \/ FromMessageRecipient

IdentifySpec == Init /\ [][IdentifyNext]_vars

\* one client looks identities up and asks for the time of their cache entry
KeyNext ==
    \/ \E raw \in RawIdentities, f \in ForceOptions : Start(1, raw, f)
    \/ CheckCache(1)
    \/ \E ok \in BOOLEAN : CallLookup1(1, ok)
    \/ \E ok \in BOOLEAN : CallLookup2(1, ok)
    \/ CallInsert(1)
    \/ Return(1)
    \/ RaceTick
    \/ ChainUpdateAny
    \/ \E raw \in RawIdentities : GetCacheTime(raw)

KeySpec == Init /\ [][KeyNext]_vars

\* endpoint addresses are normalised one after the other
AddressNext == \E first_address \in Addresses : ValidateAddress(first_address)

AddressSpec == Init /\ [][AddressNext]_vars

-----------------------------------------------------------------------------
(* Properties of the freshness zones *)

\* the age of the entry a caller in "check" would read; -1 when there is none
\* or when the entry is younger than the caller's now
AgeSeen(c) ==
    LET entry == CacheGet(cache, call[c].identity)
    IN  IF entry = NoEntry \/ entry[1] > call[c].now THEN -1
        ELSE call[c].now - entry[1]

\* caller c reads the cache in this step
Reads(c) == call[c].pc = "check" /\ call'[c] # call[c]

FetchErrors == {"IdentityFetchError", "IdentityNotFound"}

\* C1: a read without force_refresh of an entry of age 0 <= age < 15 min
\* returns the cached record at once: no chain lookup, no task spawned, the
\* cache unchanged.
C1_FreshZone ==
    [][\A c \in Callers :
        (Reads(c) /\ ~call[c].force /\ AgeSeen(c) >= 0 /\ AgeSeen(c) < 15 * 60)
        => /\ call'[c].pc = "done"
           /\ call'[c].result = Ok(cache[call[c].identity][2])
           /\ call'[c].keys = <<>>
           /\ call'[c].spawned = 0
           /\ task' = task
           /\ cache' = cache]_vars

C1_Witness ==
    /\ call[1].pc = "done" /\ call[1].zone = "fresh" /\ call[1].result.ok
    /\ call[1].identity \in DOMAIN cache
    /\ clock - cache[call[1].identity][1] = TickSeconds
    /\ call[1].result.record = cache[call[1].identity][2]

\* C2: a read without force_refresh of an entry of age 15 min <= age < 30 min
\* returns the record cached at the read and spawns exactly one refresh task
\* for that identity; no step of a task changes what a caller has or gets.
C2_StaleZone ==
    [][/\ \A c \in Callers :
            (Reads(c) /\ ~call[c].force /\ AgeSeen(c) >= 15 * 60 /\ AgeSeen(c) < 30 * 60)
            => /\ call'[c].pc = "done"
               /\ call'[c].result = Ok(cache[call[c].identity][2])
               /\ call'[c].keys = <<>>
               /\ cache' = cache
               /\ \E t \in Tasks :
                    /\ task[t].pc = "free"
                    /\ task'[t].pc = "lookup1"
                    /\ task'[t].identity = call[c].identity
                    /\ \A u \in Tasks \ {t} : task'[u] = task[u]
       /\ \A t \in Tasks :
            (task[t].pc # "free" /\ task'[t] # task[t]) => call' = call
       /\ \A c \in Callers :
            (call[c].pc = "done" /\ call[c].spawned = 1)
            => call[c].result.ok /\ call'[c] \in {call[c], IdleCall}]_vars

C2_Witness ==
    /\ call[1].pc = "done" /\ call[1].spawned = 1 /\ call[1].result.ok
    /\ \E t \in Tasks :
        /\ task[t].pc = "done" /\ ~task[t].result.ok
        /\ task[t].identity = call[1].identity
    /\ Cardinality({t \in Tasks : task[t].pc # "free"}) = 1

\* a call that went down the blocking path
Blocking(j) == j.keys # <<>>

\* C3: a read with force_refresh, or of a missing entry, or of an entry of age
\* >= 30 min, runs update_cache itself (one fetch_identity_record: the primary
\* lookup and at most one proxy lookup) and spawns nothing; when the fetch
\* succeeds the cache entry becomes (time of the insert, fetched record) and
\* that record is returned, otherwise the fetch error is returned.
C3_ExpiredZone ==
    [][\A c \in Callers :
        /\ (Reads(c) /\ (call[c].force
                         \/ call[c].identity \notin DOMAIN cache
                         \/ AgeSeen(c) >= 30 * 60))
           => /\ call'[c].pc = "lookup1"
              /\ call'[c].keys = <<>>
              /\ task' = task
              /\ cache' = cache
        /\ (call[c].pc = "insert" /\ call'[c] # call[c])
           => /\ call'[c].pc = "done"
              /\ call'[c].result = Ok(call[c].record)
              /\ cache' = CacheInsert(cache, call[c].identity, clock, call[c].record)
              /\ task' = task
        /\ (call[c].pc \in {"lookup1", "lookup2"} /\ call'[c].pc = "done")
           => /\ ~call'[c].result.ok
              /\ call'[c].result.err \in FetchErrors
        /\ (call[c].pc = "done" /\ Blocking(call[c]))
           => /\ call[c].keys[1] = call[c].identity
              /\ Len(call[c].keys) <= 2
              /\ call[c].spawned = 0
              /\ call[c].result.ok
                 => call[c].written = <<call[c].written[1], call[c].result.record>>
        /\ (call[c].pc \in {"lookup1", "lookup2", "insert"})
           => call'[c].pc \notin {"idle", "check"} /\ call'[c].spawned = 0]_vars

C3_Witness ==
    /\ call[1].pc = "done" /\ call[1].zone = "expired" /\ call[1].result.ok
    /\ cache[call[1].identity] = call[1].written
    /\ call[1].written[1] = clock

\* C4: a step in which update_cache fails (in a caller or in a task) leaves
\* the cache as it was, and the failed update has written nothing.
C4_FailedFetchKeepsCache ==
    [][/\ \A c \in Callers :
            (call[c].pc \in {"lookup1", "lookup2"} /\ call'[c].pc = "done")
            => cache' = cache /\ call'[c].written = NoEntry /\ ~call'[c].result.ok
       /\ \A t \in Tasks :
            (task[t].pc \in {"lookup1", "lookup2"} /\ task'[t].pc = "done")
            => cache' = cache /\ task'[t].written = NoEntry /\ ~task'[t].result.ok]_vars

C4_Witness ==
    /\ call[1].pc = "done" /\ call[1].zone = "forced"
    /\ call[1].result = Err("IdentityFetchError")
    /\ Len(call[1].keys) = 2
    /\ call[1].identity \in DOMAIN cache
    /\ cache[call[1].identity][1] < clock
    /\ cache[call[1].identity][2].bound_nft < chainVer
    /\ \E t \in Tasks : task[t].pc = "done" /\ task[t].result = Err("IdentityFetchError")

-----------------------------------------------------------------------------
(* Concurrent callers *)

\* callers c and d have both finished a successful call for the same identity
\* that found no cache entry
BothMissed(c, d) ==
    /\ c # d
    /\ call[c].pc = "done" /\ call[d].pc = "done"
    /\ call[c].identity = call[d].identity
    /\ call[c].zone = "miss" /\ call[d].zone = "miss"
    /\ call[c].result.ok /\ call[d].result.ok

\* C5: two calls for one identity that both miss the cache each run their own
\* fetch and return the record they fetched; every insert replaces the whole
\* (fetch_time, record) pair, nothing else touches the cache, and when both
\* are done the entry is the pair of whichever of them made the last insert.
C5_ConcurrentMisses ==
    [][/\ \A c \in Callers :
            (call[c].pc = "insert" /\ call'[c] # call[c])
            => /\ cache' = [k \in DOMAIN cache \cup {call[c].identity} |->
                             IF k = call[c].identity
                             THEN <<clock, call[c].record>> ELSE cache[k]]
               /\ call'[c].written = <<clock, call[c].record>>
       /\ (\A c \in Callers : ~(call[c].pc = "insert" /\ call'[c] # call[c]))
            => cache' = cache
       /\ \A c \in Callers :
            (call[c].zone = "miss" /\ call[c].pc = "done")
            => call[c].keys # <<>> /\ call[c].keys[1] = call[c].identity
       /\ \A c, d \in Callers :
            BothMissed(c, d)
            => /\ call[c].result.record = call[c].written[2]
               /\ call[c].identity \in DOMAIN cache
               /\ lastWriter[call[c].identity] = <<"call", c>>
                  => cache[call[c].identity] = call[c].written
               /\ call[c].written[1] > call[d].written[1]
                  => lastWriter[call[c].identity] # <<"call", d>>]_vars

C5_Witness ==
    /\ BothMissed(1, 2)
    /\ call[1].result.record # call[2].result.record
    /\ call[1].written[1] < call[2].written[1]
    /\ cache[call[1].identity] = call[2].written
    /\ lastWriter[call[1].identity] = <<"call", 2>>
    /\ call[1].result.record.bound_nft > call[2].result.record.bound_nft

-----------------------------------------------------------------------------
(* Background refresh *)

\* C6: a refresh task whose fetch has succeeded eventually overwrites the
\* cache entry of its identity with (time of the insert, fetched record), a
\* time not earlier than the stale read that spawned it; no step of a task
\* changes any call, so the overwrite is the task's only effect.
C6_RefreshLandsInCache ==
    /\ \A t \in Tasks :
        (task[t].pc = "insert")
        ~> (/\ task[t].pc = "done" /\ task[t].result.ok
            /\ task[t].written = <<task[t].written[1], task[t].result.record>>)
    /\ [][\A t \in Tasks :
            /\ (task[t].pc = "insert" /\ task'[t] # task[t])
               => /\ cache' = [k \in DOMAIN cache \cup {task[t].identity} |->
                                IF k = task[t].identity
                                THEN <<clock, task[t].record>> ELSE cache[k]]
                  /\ task'[t].written = <<clock, task[t].record>>
                  /\ task'[t].result = Ok(task[t].record)
                  /\ clock >= task[t].readAt
            /\ (task[t].pc # "free" /\ task'[t] # task[t])
               => call' = call]_vars

C6_Witness ==
    \E t \in Tasks :
        /\ task[t].pc = "done" /\ task[t].result.ok
        /\ cache[task[t].identity] = task[t].written
        /\ lastWriter[task[t].identity] = <<"task", t>>
        /\ call[1].pc = "done" /\ call[1].spawned = 1
        /\ call[1].result.record # task[t].result.record

-----------------------------------------------------------------------------
(* Proxy indirection *)

\* the host part of the endpoint ends like a registry identity
IsRegistryIdentity(node) ==
    \E ending \in VALID_ENDINGS : ends_with(split_first(node, ":"), ending)

\* the endpoints of the list that are registry identities, in order
IdentityEntries(nodes) == SelectSeq(nodes, IsRegistryIdentity)

\* the step of caller c that ends its first lookup with a record
FirstFetched(c) == call[c].pc = "lookup1" /\ call'[c].pc \in {"lookup2", "insert"}

\* the step of caller c that ends its proxy lookup with a record
ProxyFetched(c) == call[c].pc = "lookup2" /\ call'[c].pc = "insert"

\* what C7 says of these steps, for the endpoints accepted by matches
ProxyIndirection(c, matches(_)) ==
    /\ FirstFetched(c)
       => LET first == call'[c].record
              proxied == \E i \in 1..Len(first.address_or_proxy_nodes) :
                            matches(first.address_or_proxy_nodes[i])
          IN  /\ first = OnchainIdentity(call[c].identity,
                                         ChainLookup(call[c].identity, chainVer))
              /\ proxied => call'[c].pc = "lookup2"
              /\ ~proxied => call'[c].pc = "insert" /\ Len(call'[c].keys) = 1
    /\ ProxyFetched(c)
       => /\ Len(call'[c].keys) = 2
          /\ call'[c].record.address_or_proxy_nodes =
                ChainLookup(call'[c].keys[2], chainVer).address_or_proxy_nodes
          /\ \A f \in DOMAIN call[c].record \ {"address_or_proxy_nodes"} :
                call'[c].record[f] = call[c].record[f]
    /\ call[c].pc = "insert" => call'[c].pc \in {"insert", "done"}

\* C7: a fetched record with an endpoint whose host part ends with a registry
\* identity suffix leads to exactly one proxy lookup, whose endpoint list
\* replaces the record's while every other field stays; a record without such
\* an endpoint is returned as fetched, with no proxy lookup.
C7_ProxyIndirection ==
    [][\A c \in Callers : ProxyIndirection(c, IsRegistryIdentity)]_vars

\* the same for the three endings fetch_identity_record tests
C7_ProxyIndirectionThreeEndings ==
    [][\A c \in Callers : ProxyIndirection(c, IsProxyNode)]_vars

C7_ThreeEndingsWitness ==
    \E c \in Callers :
        /\ call[c].pc = "done" /\ call[c].result.ok /\ Len(call[c].keys) = 2
        /\ IsProxyNode(call[c].result.record.address_or_proxy_nodes[1])
        /\ call[c].result.record.bound_nft = 2

\* C8: the key of the proxy lookup is the comma-joined list of the endpoints
\* that are registry identities; raw addresses are not part of it.
C8_ProxyLookupKey ==
    [][\A c \in Callers :
        (call[c].pc = "lookup2" /\ call'[c] # call[c])
        => call'[c].keys[2] =
              join(IdentityEntries(call[c].record.address_or_proxy_nodes), Comma)]_vars

-----------------------------------------------------------------------------
(* Round trips of the two layers *)

\* the keys of a decrypt call are the counterpart of the keys of the
\* encryption: the recipient's secret with the sender's public key
Counterpart(seal, self_sk, other_pk) ==
    \E a \in EncryptionStaticKeys, b \in EncryptionStaticKeys :
        /\ seal.self_sk = a /\ seal.other_pk = EncryptionPublicKey(b)
        /\ self_sk = b /\ other_pk = EncryptionPublicKey(a)

\* C9: decrypt_outer, with the recipient's secret and the sender's public
\* key, of a message whose unencrypted body was encrypted by encrypt_outer
\* with the sender's secret and the recipient's public key succeeds and
\* returns the body that was encrypted; both sides derive the same key.
C9_OuterRoundTrip ==
    (/\ last.op = "decrypt_outer"
     /\ last.input.body.tag = "Encrypted"
     /\ Counterpart(sealedBody, last.self_sk, last.other_pk))
    => /\ last.result.ok
       /\ last.result.value.body = sealedBody.plain
       /\ message.body = sealedBody.plain
       /\ CipherKey(sealedBody.self_sk, sealedBody.other_pk)
            = CipherKey(last.self_sk, last.other_pk)

C9_Witness ==
    /\ last.op = "decrypt_outer"
    /\ last.input.body.tag = "Encrypted"
    /\ Counterpart(sealedBody, last.self_sk, last.other_pk)
    /\ parties.sender # parties.recipient
    /\ last.result.ok
    /\ message.body = sealedBody.plain
    /\ message.body.message_data.tag = "Unencrypted"
    /\ message.body.message_data.message_raw_content # <<>>

\* C10: decrypt_inner, with the counterpart keys, of a content that
\* encrypt_inner encrypted returns exactly the content string and the schema
\* that were encrypted, whatever the content (empty, or ending with the
\* string form of a schema).
C10_InnerRoundTrip ==
    (/\ last.op = "decrypt_inner"
     /\ last.input.body.tag = "Unencrypted"
     /\ last.input.body.message_data.tag = "Encrypted"
     /\ Counterpart(sealedData, last.self_sk, last.other_pk))
    => /\ last.result.ok
       /\ last.result.value.body.message_data = sealedData.plain
       /\ message.body.message_data = sealedData.plain

C10_Witness ==
    /\ last.op = "decrypt_inner"
    /\ last.input.body.tag = "Unencrypted"
    /\ last.input.body.message_data.tag = "Encrypted"
    /\ Counterpart(sealedData, last.self_sk, last.other_pk)
    /\ last.result.ok
    /\ message.body.message_data = sealedData.plain
    /\ \E t \in Schemas :
           /\ ends_with(sealedData.plain.message_raw_content, to_str(t))
           /\ sealedData.plain.message_content_schema # t

-----------------------------------------------------------------------------
(* Preconditions and passthroughs of the layer operations *)

\* C11: encrypt_outer on a message whose body is Encrypted, or whose
\* encryption method is None, returns AlreadyEncrypted and the caller is left
\* with the message it had; in every other case it returns a message with an
\* Encrypted body and the method DiffieHellmanChaChaPoly1305.
C11_EncryptOuterPrecondition ==
    last.op = "encrypt_outer" =>
        IF last.input.body.tag = "Encrypted" \/ last.input.encryption = "None"
        THEN /\ ~last.result.ok
             /\ last.result.err = "AlreadyEncrypted"
             /\ message = last.input
        ELSE /\ last.result.ok
             /\ last.result.value.body.tag = "Encrypted"
             /\ last.result.value.encryption = "DiffieHellmanChaChaPoly1305"
             /\ message = last.result.value

C11_Witness ==
    /\ last.op = "encrypt_outer"
    /\ last.input.body.tag = "Unencrypted"
    /\ last.input.encryption = "None"
    /\ last.result.err = "AlreadyEncrypted"
    /\ message = last.input

-----------------------------------------------------------------------------
(* Wrong keys and envelopes changed in transit *)

\* the keys of a decrypt call derive the key of the encryption: they are the
\* counterpart of the encryption's keys or those keys themselves
KeysMatch(seal, self_sk, other_pk) ==
    \/ Counterpart(seal, self_sk, other_pk)
    \/ self_sk = seal.self_sk /\ other_pk = seal.other_pk

\* the latest call is a decrypt_outer of an Encrypted body
DecryptedBody ==
    last.op = "decrypt_outer" /\ last.input.body.tag = "Encrypted"

\* the latest call is a decrypt_inner of an Encrypted content
DecryptedData ==
    /\ last.op = "decrypt_inner"
    /\ last.input.body.tag = "Unencrypted"
    /\ last.input.body.message_data.tag = "Encrypted"

\* what was changed in the envelope the latest call decrypted
AlteredKind ==
    IF \/ DecryptedBody /\ altered.layer = "body"
       \/ DecryptedData /\ altered.layer = "data"
    THEN altered.kind
    ELSE "none"

SealOfLast == IF DecryptedBody THEN sealedBody ELSE sealedData

\* C12: a decrypt of either layer with keys that do not match the keys of
\* the encryption, or of an envelope whose nonce or ciphertext bytes were
\* changed, never returns Ok: both return the same DecryptionError value.
C12_WrongKeyOrCorrupted ==
    (/\ DecryptedBody \/ DecryptedData
     /\ \/ AlteredKind = "none" /\ ~KeysMatch(SealOfLast, last.self_sk, last.other_pk)
        \/ AlteredKind \in {"nonce", "ciphertext"})
    => last.result = Fail("DecryptionError", "Decryption failure!")

C12_Witness ==
    /\ DecryptedBody
    /\ AlteredKind = "none"
    /\ ~KeysMatch(SealOfLast, last.self_sk, last.other_pk)
    /\ last.result = Fail("DecryptionError", "Decryption failure!")
    /\ message = last.input

C12_CorruptedDataWitness ==
    /\ DecryptedData
    /\ AlteredKind = "ciphertext"
    /\ KeysMatch(SealOfLast, last.self_sk, last.other_pk)
    /\ last.result = Fail("DecryptionError", "Decryption failure!")

\* C13: decrypt_outer and decrypt_inner of an Encrypted value that holds any
\* content string end with Ok or with a DecryptionError; they never panic.
C13_DecryptNeverPanics ==
    (DecryptedBody \/ DecryptedData)
    => last.result.ok \/ last.result.err = "DecryptionError"

\* the malformed strings that the code does answer with a DecryptionError
C13_MalformedRejected ==
    (/\ DecryptedBody \/ DecryptedData
     /\ AlteredKind \in {"empty", "no_marker", "not_hex", "odd_hex"})
    => ~last.result.ok /\ last.result.err = "DecryptionError"

C13_PanicOnShortEnvelope ==
    /\ DecryptedBody
    /\ AlteredKind \in {"short", "marker_only"}
    /\ last.result.err = "panic"

C13_PanicOnContentLength ==
    /\ DecryptedData
    /\ AlteredKind = "len_content"
    /\ KeysMatch(SealOfLast, last.self_sk, last.other_pk)
    /\ last.result.err = "panic"


-----------------------------------------------------------------------------
(* ZooName: parsing *)

\* the string ZooName::new validates: its argument after the automatic
\* prefix and suffix
CorrectedParts == split(correct_node_name(parsed.args[1]), "/")

\* the node segment between its '@@' and its ending
NodeBody(part) ==
    LET ending == CHOOSE e \in VALID_ENDINGS : ends_with(part, e)
    IN  SubSeq(part, Len(AtAt) + 1, Len(part) - Len(ending))

NodeCharsAllowed(part) ==
    \A i \in 1..Len(NodeBody(part)) :
        IsWordChar(NodeBody(part)[i]) \/ NodeBody(part)[i] = "."

\* what the grammar rejects, segment by segment
BreaksGrammar(parts) ==
    \/ Len(parts) > 4
    \/ ~HasValidEnding(parts[1])
    \/ HasValidEnding(parts[1]) /\ ~NodeCharsAllowed(parts[1])
    \/ /\ Len(parts) >= 2
       /\ ~re(parts[2]) \/ str_contains(parts[2], SufZoo)
    \/ /\ Len(parts) >= 4
       /\ ~re(parts[4]) \/ str_contains(parts[4], SufZoo)
    \/ /\ Len(parts) >= 3
       /\ parts[3] \notin {type_to_string(t) : t \in SubidentityTypes}
    \/ Len(parts) = 3

\* C14: ZooName::new returns an identity or an error value for every string
\* and never panics; a string that breaks the grammar after the automatic
\* prefix and suffix (segment count, node characters or suffix, profile or
\* name characters, '.zoo' in a segment, type token, type without a name)
\* gets an error.
C14_NewTotalAndRejects ==
    (parsed.op = "new")
    => /\ parsed.result.ok \/ parsed.result.err = "str"
       /\ BreaksGrammar(CorrectedParts) => ~parsed.result.ok

C14_Witness ==
    /\ parsed.op = "new"
    /\ Len(CorrectedParts) = 4
    /\ CorrectedParts[3] = <<"A", "g", "e", "n", "t">>
    /\ ~parsed.result.ok /\ parsed.result.err = "str"

C14_AcceptedWitness ==
    /\ parsed.op = "new"
    /\ Len(CorrectedParts) = 4
    /\ parsed.result.ok


\* C15: the string form of an identity that ZooName::new made parses again,
\* to an identity equal to the first one and with the same string form: a
\* second parse adds no prefix and no suffix.
C15_ParseRoundTrip ==
    (/\ earlier.op = "new" /\ earlier.result.ok
     /\ parsed.op = "new"
     /\ parsed.args = <<to_string(earlier.result.value)>>)
    => /\ parsed.result.ok
       /\ eq(parsed.result.value, earlier.result.value)
       /\ to_string(parsed.result.value) = to_string(earlier.result.value)

\* a bare upper-case node name, and its parsed string form
C15_Witness ==
    /\ earlier.op = "new" /\ earlier.args = << <<"A">> >> /\ earlier.result.ok
    /\ parsed.op = "new" /\ parsed.args = <<AtAt \o <<"a">> \o SufZoo>>
    /\ parsed.result.ok

\* four segments with upper-case profile and name
C15_MixedCaseWitness ==
    /\ earlier.op = "new" /\ earlier.result.ok
    /\ earlier.args = <<Path(<<<<"a">>, <<"P">>, type_to_string("Agent"), <<"N">>>>)>>
    /\ parsed.op = "new" /\ parsed.args = <<to_string(earlier.result.value)>>
    /\ parsed.args # earlier.args
    /\ parsed.result.ok

-----------------------------------------------------------------------------
(* ZooName: the shape of an identity *)

PresentFields(name) ==
    <<name.node_name>>
    \o name.profile_name
    \o (IF is_some(name.subidentity_type)
        THEN <<type_to_string(unwrap(name.subidentity_type))>> ELSE <<>>)
    \o name.subidentity_name

WellShaped(name) ==
    /\ is_some(name.subidentity_name) <=> is_some(name.subidentity_type)
    /\ is_some(name.subidentity_type) => is_some(name.profile_name)
    /\ Len(split(name.full_name, "/")) # 3
    /\ starts_with(name.node_name, AtAt)
    /\ HasValidEnding(name.node_name)
    /\ name.full_name = to_lowercase(Path(PresentFields(name)))

\* C16: every identity made by ZooName::new, by a from_* constructor, by
\* extract_node or by extract_profile has a name exactly when it has a type,
\* a profile when it has a type, never three segments, a node name within
\* '@@' and a valid ending, and the lower-case '/'-join of its present
\* fields as full_name; extract_profile never panics on it.
C16_IdentityShape ==
    /\ parsed.result.ok => WellShaped(parsed.result.value)
    /\ parsed.op = "extract_profile"
       => parsed.result.ok \/ parsed.result.err = "str"

C16_Witness ==
    /\ parsed.op = "extract_profile" /\ parsed.result.ok
    /\ earlier.result.ok
    /\ is_some(earlier.result.value.subidentity_name)
    /\ parsed.result.value.full_name # earlier.result.value.full_name

C16_ExtractNodeWitness ==
    /\ parsed.op = "extract_node"
    /\ earlier.op = "from_node_and_profile_names_and_type_and_name"
    /\ earlier.result.ok
    /\ parsed.result.value.full_name # earlier.result.value.full_name

-----------------------------------------------------------------------------
(* ZooName: letter case *)

SameButCase(a, b) == to_lowercase(a) = to_lowercase(b)

BothNew == earlier.op = "new" /\ parsed.op = "new"

SameOutcome ==
    \/ ~earlier.result.ok /\ ~parsed.result.ok
    \/ /\ earlier.result.ok /\ parsed.result.ok
       /\ eq(earlier.result.value, parsed.result.value)

\* C17: for two raw strings that differ only in letter case ZooName::new
\* fails on both or succeeds on both with equal identities.
C17_CaseInsensitive ==
    (BothNew /\ SameButCase(earlier.args[1], parsed.args[1])) => SameOutcome

PartOr(parts, i) == IF Len(parts) >= i THEN parts[i] ELSE <<>>

\* what does hold: the case of the letters outside the node's ending and
\* outside the type token does not matter
C17_CaseInsensitiveOutsideEndingAndType ==
    (/\ BothNew /\ SameButCase(earlier.args[1], parsed.args[1])
     /\ HasValidEnding(split(earlier.args[1], "/")[1])
            = HasValidEnding(split(parsed.args[1], "/")[1])
     /\ PartOr(split(earlier.args[1], "/"), 3) = PartOr(split(parsed.args[1], "/"), 3))
    => SameOutcome

\* 'a.ZOO' and 'a.zoo' both parse, to different identities
C17_SuffixCaseWitness ==
    /\ BothNew
    /\ earlier.args = << <<"a", ".", "Z", "O", "O">> >>
    /\ parsed.args = << <<"a">> \o SufZoo >>
    /\ earlier.result.ok /\ parsed.result.ok
    /\ ~eq(earlier.result.value, parsed.result.value)

\* '.../Agent/n' fails where '.../agent/n' parses
C17_TypeCaseWitness ==
    /\ BothNew
    /\ earlier.args = <<Path(<<<<"a">>, <<"p">>, <<"A", "g", "e", "n", "t">>, <<"n">>>>)>>
    /\ parsed.args = <<Path(<<<<"a">>, <<"p">>, type_to_string("Agent"), <<"n">>>>)>>
    /\ ~earlier.result.ok /\ parsed.result.ok

-----------------------------------------------------------------------------
(* ZooName: contains *)

IsPrefix(a, b) == Len(a) <= Len(b) /\ SubSeq(b, 1, Len(a)) = a

Segments(name) == split(name.full_name, "/")

KnownNames == { new(raw_name).value : raw_name \in {r \in RawNames : new(r).ok} }

\* C18: contains(a, b) is true exactly when the segments of a are a prefix
\* of the segments of b; it is true for contains(x, x) and for
\* contains(extract_node(x), x), false when a has more segments than b, and
\* transitive.
C18_ContainsIsPrefix ==
    answer.asked
    => /\ answer.value = IsPrefix(Segments(answer.self), Segments(answer.other))
       /\ answer.self = answer.other => answer.value
       /\ (/\ parsed.op = "extract_node"
           /\ answer.self = parsed.result.value
           /\ answer.other = earlier.result.value) => answer.value
       /\ Len(Segments(answer.self)) > Len(Segments(answer.other)) => ~answer.value
       /\ \A c \in KnownNames :
              (answer.value /\ contains(answer.other, c)) => contains(answer.self, c)

C18_Witness ==
    /\ answer.asked
    /\ parsed.op = "extract_node"
    /\ answer.self = parsed.result.value
    /\ answer.other = earlier.result.value
    /\ answer.self # answer.other
    /\ answer.value

C18_LongerWitness ==
    /\ answer.asked
    /\ Len(Segments(answer.self)) > Len(Segments(answer.other))
    /\ Segments(answer.other) = SubSeq(Segments(answer.self), 1, Len(Segments(answer.other)))
    /\ ~answer.value


\* any key pair a caller can hand to a decrypt
AnyKeys == EncryptionStaticKeys \X {EncryptionPublicKey(sk) : sk \in EncryptionStaticKeys}

\* C19: decrypt_outer on a message whose body is unencrypted returns its
\* input, whatever the keys; after a successful decrypt_outer the body is
\* unencrypted, so a second decrypt_outer returns the same message and
\* cannot fail.
C19_DecryptOuterIdempotent ==
    (last.op = "decrypt_outer")
    => /\ last.input.body.tag = "Unencrypted"
          => last.result = OkOf(last.input)
       /\ last.result.ok
          => /\ last.result.value.body.tag = "Unencrypted"
             /\ \A keys \in AnyKeys :
                    decrypt_outer_layer(last.result.value, keys[1], keys[2])
                        = OkOf(last.result.value)

\* the second decrypt_outer, this time with keys that do not fit
C19_Witness ==
    /\ last.op = "decrypt_outer"
    /\ last.input.body.tag = "Unencrypted"
    /\ sealedBody # NoSeal
    /\ last.input.body = sealedBody.plain
    /\ ~KeysMatch(sealedBody, last.self_sk, last.other_pk)
    /\ last.result.ok

\* C20: decrypt_inner on a message whose body is Encrypted returns an error
\* and leaves no new message; on an unencrypted body with unencrypted
\* content it returns its input, whatever the keys.
C20_DecryptInnerPrecondition ==
    (last.op = "decrypt_inner")
    => /\ last.input.body.tag = "Encrypted"
          => last.result = Fail("EncryptionError", "Body is encrypted. Can't decrypt inner layer")
       /\ (/\ last.input.body.tag = "Unencrypted"
           /\ last.input.body.message_data.tag = "Unencrypted")
          => last.result = OkOf(last.input)

C20_Witness ==
    /\ last.op = "decrypt_inner"
    /\ last.input.body.tag = "Encrypted"
    /\ ~last.result.ok
    /\ message.body.tag = "Encrypted"

C20_PassthroughWitness ==
    /\ last.op = "decrypt_inner"
    /\ last.input.body.tag = "Unencrypted"
    /\ last.input.body.message_data.tag = "Unencrypted"
    /\ sealedData # NoSeal
    /\ ~KeysMatch(sealedData, last.self_sk, last.other_pk)
    /\ last.result.ok


-----------------------------------------------------------------------------
(* ZooName: empty segments *)

HasEmptySegmentAfterNode(raw_name) ==
    \E i \in 2..Len(split(raw_name, "/")) : split(raw_name, "/")[i] = <<>>

\* C30: ZooName::new rejects every string with an empty segment after the
\* node name (a trailing '/', an empty name after the type, doubled
\* slashes), so the profile_name and the subidentity_name of an accepted
\* identity are never empty.
C30_NoEmptySegment ==
    (parsed.op = "new")
    => /\ HasEmptySegmentAfterNode(parsed.args[1]) => ~parsed.result.ok
       /\ parsed.result.ok
          => /\ parsed.result.value.profile_name # Some(<<>>)
             /\ parsed.result.value.subidentity_name # Some(<<>>)

\* what does hold: the node name followed by two slashes and nothing else
\* is rejected, as every name of three segments is
C30_DoubledSlashRejected ==
    (/\ parsed.op = "new"
     /\ Len(split(parsed.args[1], "/")) = 3
     /\ split(parsed.args[1], "/")[2] = <<>>)
    => ~parsed.result.ok

C30_DoubledSlashWitness ==
    /\ parsed.op = "new"
    /\ parsed.args = <<Path(<<<<"a">>, <<>>, <<>>>>)>>
    /\ ~parsed.result.ok

\* 'a/' is accepted with the empty profile
C30_EmptyProfileWitness ==
    /\ parsed.op = "new"
    /\ parsed.args = <<Path(<<<<"a">>, <<>>>>)>>
    /\ parsed.result.ok
    /\ parsed.result.value.profile_name = Some(<<>>)

\* 'a//agent/n' is accepted with the empty profile between two slashes
C30_InnerDoubledSlashWitness ==
    /\ parsed.op = "new"
    /\ parsed.args = <<Path(<<<<"a">>, <<>>, type_to_string("Agent"), <<"n">>>>)>>
    /\ parsed.result.ok
    /\ parsed.result.value.profile_name = Some(<<>>)

\* 'a/p/agent/' is accepted with the empty name
C30_EmptyNameWitness ==
    /\ parsed.op = "new"
    /\ parsed.args = <<Path(<<<<"a">>, <<"p">>, type_to_string("Agent"), <<>>>>)>>
    /\ parsed.result.ok
    /\ parsed.result.value.subidentity_name = Some(<<>>)


-----------------------------------------------------------------------------
(* ZooName: identities read from a message *)

FromMessageOps ==
    {"from_zoo_message_using_sender_subidentity",
     "from_zoo_message_using_recipient_subidentity"}

\* '{node}/{subidentity}', or the node alone for the empty subidentity
NodeAndSubidentity ==
    IF parsed.subidentity = <<>> THEN parsed.args[1]
    ELSE parsed.args[1] \o Slash \o parsed.subidentity

ParsedNodeAndSubidentity ==
    IF new(NodeAndSubidentity).ok
    THEN /\ parsed.result.ok
         /\ eq(parsed.result.value, new(NodeAndSubidentity).value)
    ELSE ~parsed.result.ok /\ parsed.result.err = "InvalidNameFormat"

\* C21: from_zoo_message_using_sender_subidentity and
\* from_zoo_message_using_recipient_subidentity fail with InvalidNameFormat
\* when the body of the message is Encrypted; with an unencrypted body they
\* parse '{node}/{subidentity}', or the node alone when the subidentity is
\* empty.
C21_FromMessage ==
    (parsed.op \in FromMessageOps)
    => IF parsed.body = "Encrypted"
       THEN ~parsed.result.ok /\ parsed.result.err = "InvalidNameFormat"
       ELSE ParsedNodeAndSubidentity

\* what does hold: the unencrypted half
C21_UnencryptedBodyParsed ==
    (parsed.op \in FromMessageOps /\ parsed.body = "Unencrypted")
    => ParsedNodeAndSubidentity

C21_UnencryptedWitness ==
    /\ parsed.op = "from_zoo_message_using_sender_subidentity"
    /\ parsed.body = "Unencrypted"
    /\ parsed.subidentity = <<"M">>
    /\ parsed.result.ok
    /\ sealedBody # NoSeal

C21_UnencryptedRejectedWitness ==
    /\ parsed.op = "from_zoo_message_using_recipient_subidentity"
    /\ parsed.body = "Unencrypted"
    /\ parsed.subidentity = <<"m", "/", "x">>
    /\ parsed.result = InvalidNameFormat(ExternalMetadata.recipient \o <<"/", "m", "/", "x">>)

\* the sender of a message with an Encrypted body: MessageBodyMissing
C21_SenderWitness ==
    /\ parsed.op = "from_zoo_message_using_sender_subidentity"
    /\ parsed.body = "Encrypted"
    /\ parsed.result = MessageBodyMissing

\* the recipient of a message with an Encrypted body: InvalidOperation
C21_RecipientWitness ==
    /\ parsed.op = "from_zoo_message_using_recipient_subidentity"
    /\ parsed.body = "Encrypted"
    /\ parsed.result = InvalidOperation("Cannot process encrypted ZooMessage")

-----------------------------------------------------------------------------
(* Address normalisation *)

AddressTable ==
    { <<<<"h", "t", "t", "p", ":", "/", "/", "l", "o", "c", "a", "l", "h", "o", "s", "t", ":", "8", "0", "8", "0">>, <<"1", "2", "7", ".", "0", ".", "0", ".", "1", ":", "8", "0", "8", "0">>>>,
      <<<<"h", "t", "t", "p", "s", ":", "/", "/", "l", "o", "c", "a", "l", "h", "o", "s", "t">>, <<"l", "o", "c", "a", "l", "h", "o", "s", "t", ":", "4", "4", "3">>>>,
      <<<<"h", "t", "t", "p", ":", "/", "/", "e", "x", "a", "m", "p", "l", "e", ".", "c", "o", "m">>, <<"e", "x", "a", "m", "p", "l", "e", ".", "c", "o", "m", ":", "8", "0">>>>,
      <<<<"h", "t", "t", "p", "s", ":", "/", "/", "e", "x", "a", "m", "p", "l", "e", ".", "c", "o", "m">>, <<"e", "x", "a", "m", "p", "l", "e", ".", "c", "o", "m", ":", "4", "4", "3">>>>,
      <<<<"e", "x", "a", "m", "p", "l", "e", ".", "c", "o", "m", ":", "1", "2", "3", "4">>, <<"e", "x", "a", "m", "p", "l", "e", ".", "c", "o", "m", ":", "1", "2", "3", "4">>>> }

\* C22: validate_address strips 'http://' and 'https://', rewrites a
\* leading 'localhost:' to '127.0.0.1:' and, when the result has no ':',
\* appends ':443' for an input that starts with 'https://', ':80' for one
\* that starts with 'http://' and nothing otherwise; the five rows of the
\* table come out as written.
C22_ValidateAddress ==
    (address # NoAddress)
    => /\ address.result.ok
       /\ LET stripped == WithoutScheme(address.input)
              local == IF starts_with(stripped, LocalhostColon)
                       THEN Loopback \o SubSeq(stripped, Len(Localhost) + 1, Len(stripped))
                       ELSE stripped
              out == address.result.value
          IN  /\ (\E i \in 1..Len(local) : local[i] = ":") => out = local
              /\ ~(\E i \in 1..Len(local) : local[i] = ":")
                 => out = local \o (IF starts_with(address.input, Https) THEN Port443
                                    ELSE IF starts_with(address.input, Http) THEN Port80
                                    ELSE <<>>)
       /\ \A row \in AddressTable :
              address.input = row[1] => address.result.value = row[2]

C22_Witness ==
    /\ address.input = <<"h", "t", "t", "p", ":", "/", "/", "l", "o", "c", "a", "l", "h", "o", "s", "t", ":", "8", "0", "8", "0">>
    /\ address.result = OkOf(<<"1", "2", "7", ".", "0", ".", "0", ".", "1", ":", "8", "0", "8", "0">>)

C22_HttpsLocalhostWitness ==
    /\ address.input = <<"h", "t", "t", "p", "s", ":", "/", "/", "l", "o", "c", "a", "l", "h", "o", "s", "t">>
    /\ address.result = OkOf(<<"l", "o", "c", "a", "l", "h", "o", "s", "t", ":", "4", "4", "3">>)

-----------------------------------------------------------------------------
(* C23: no eviction *)

\* the step is the insert of a finished update: job j was at its insert and
\* the cache now holds, under j's identity, the record j fetched with the
\* time of the insert, and every other entry as it was
IsInsertOf(j) ==
    /\ j.pc = "insert"
    /\ DOMAIN cache' = DOMAIN cache \cup {j.identity}
    /\ cache'[j.identity] = <<clock, j.record>>
    /\ \A k \in DOMAIN cache \ {j.identity} : cache'[k] = cache[k]

\* caller c reads the cache in this step
IsRead(c) == call[c].pc = "check" /\ call'[c].pc # "check"

\* C23: an entry once inserted stays in the cache however old it is; the cache
\* changes only by the insert of a successful update, which replaces one whole
\* entry; a read, in whatever zone, leaves the cache as it was
C23_NoEviction ==
    [][/\ DOMAIN cache \subseteq DOMAIN cache'
       /\ cache' # cache =>
            \/ \E c \in Callers : IsInsertOf(call[c]) /\ call'[c].result = Ok(call[c].record)
            \/ \E t \in Tasks : IsInsertOf(task[t]) /\ task'[t].result = Ok(task[t].record)
       /\ \A c \in Callers : IsRead(c) => cache' = cache]_vars

\* an entry as old as CACHE_TIME is still in the cache after a read found it
\* expired and the refresh failed
C23_Witness ==
    /\ call[1].pc = "done"
    /\ call[1].zone = "expired"
    /\ ~call[1].result.ok
    /\ call[1].identity \in DOMAIN cache
    /\ clock - cache[call[1].identity][1] >= CACHE_TIME

-----------------------------------------------------------------------------
(* C25: a read and a concurrent writer *)

\* caller c, not forcing a refresh, reads the cache while it holds an entry
\* for c's identity that was written less than CACHE_NO_UPDATE ago
ReadsYoungEntry(c) ==
    /\ IsRead(c)
    /\ ~call[c].force
    /\ call[c].identity \in DOMAIN cache
    /\ clock - cache[call[c].identity][1] < CACHE_NO_UPDATE

\* C25: a read (force_refresh false) that finds an entry written less than 15
\* minutes earlier returns Ok with that entry's record, also when the entry
\* was written after the call took its own timestamp
C25_ReadNeverFails ==
    [][\A c \in Callers :
          ReadsYoungEntry(c) =>
              /\ call'[c].pc = "done"
              /\ call'[c].result = Ok(cache[call[c].identity][2])]_vars

\* C25, for the entries that are not later than the timestamp of the call
C25_ReadOfEarlierEntry ==
    [][\A c \in Callers :
          ReadsYoungEntry(c) /\ cache[call[c].identity][1] <= call[c].now =>
              /\ call'[c].pc = "done"
              /\ call'[c].result = Ok(cache[call[c].identity][2])]_vars

\* a call has failed with SystemTimeError on an entry that another caller
\* wrote after the call had taken its timestamp
C25_SystemTimeErrorWitness ==
    \E c \in Callers :
        /\ call[c].pc = "done"
        /\ call[c].zone = "timeerr"
        /\ call[c].result = Err("SystemTimeError")
        /\ call[c].identity \in DOMAIN lastWriter
        /\ lastWriter[call[c].identity] # <<"call", c>>

-----------------------------------------------------------------------------
(* C26: overlapping updates of one identity *)

\* callers a and b have both finished an update of the same identity, and a
\* read the chain before b: its record is of an earlier revision
OlderThenNewer(a, b) ==
    /\ a # b
    /\ call[a].pc = "done" /\ call[b].pc = "done"
    /\ call[a].identity = call[b].identity
    /\ call[a].written # NoEntry /\ call[b].written # NoEntry
    /\ call[a].record.bound_nft < call[b].record.bound_nft

\* C26 as claimed: after two overlapping updates the cache does not hold the
\* record of the update that read the chain first, and never that record
\* with a fetch_time later than the other update's
C26_NeverBackInTime ==
    \A a, b \in Callers :
        OlderThenNewer(a, b) =>
            /\ cache[call[a].identity][2] # call[a].record
            /\ ~(/\ cache[call[a].identity][2] = call[a].record
                 /\ cache[call[a].identity][1] > call[b].written[1])

\* C26 as amended: after two overlapping updates the cache holds the whole
\* (fetch_time, record) pair of one of them, its fetch_time is not earlier than
\* either insert, and an update that inserted later than the other is the one
\* whose pair is held, whichever of the two read the chain first
C26_LastInsertWins ==
    \A a, b \in Callers :
        OlderThenNewer(a, b) =>
            LET entry == cache[call[a].identity]
            IN  /\ entry \in {call[a].written, call[b].written}
                /\ entry[1] >= call[a].written[1]
                /\ entry[1] >= call[b].written[1]
                /\ call[a].written[1] > call[b].written[1] => entry = call[a].written
                /\ call[b].written[1] > call[a].written[1] => entry = call[b].written

\* the update that read the chain first inserted last: the cache holds its
\* older record with a fetch_time later than the other update's
C26_Witness ==
    /\ OlderThenNewer(1, 2)
    /\ call[1].written[1] > call[2].written[1]
    /\ cache[call[1].identity] = call[1].written
    /\ cache[call[1].identity][2].bound_nft < call[2].result.record.bound_nft

-----------------------------------------------------------------------------
(* C29: the cache key of get_cache_time *)

\* get_cache_time(s) is asked in this step, right after the caller's
\* get_identity_record(s) has succeeded: s is the identity the call looked
\* up, with or without the leading "@@"
AsksAfterSuccess(s) ==
    /\ call[1].pc = "done" /\ call[1].result.ok
    /\ StripIdentity(s) = call[1].identity
    /\ cacheTime' # cacheTime
    /\ cacheTime'.identity = s

\* C29: for every identity string s, with or without "@@", get_cache_time(s)
\* after a successful get_identity_record(s) returns Some(fetch_time) of the
\* entry that call used; "@@x" and "x" name the same cache entry
C29_SameCacheKey ==
    [][\A s \in RawIdentities :
          AsksAfterSuccess(s) =>
              /\ call[1].identity \in DOMAIN cache
              /\ cacheTime'.result = <<cache[call[1].identity][1]>>
              /\ cacheTime'.result = get_cache_time(cache, StripIdentity(s))]_vars

\* C29, for identity strings given without the leading "@@"
C29_BareIdentity ==
    [][\A s \in RawIdentities :
          AsksAfterSuccess(s) /\ ~starts_with(s, AtAt) =>
              /\ call[1].identity \in DOMAIN cache
              /\ cacheTime'.result = <<cache[call[1].identity][1]>>]_vars

\* get_cache_time("@@a.zoo") has answered None while the entry of a.zoo that
\* the finished call used is in the cache
C29_PrefixedWitness ==
    /\ call[1].pc = "done" /\ call[1].result.ok
    /\ call[1].identity \in DOMAIN cache
    /\ cacheTime.identity = AtAt \o call[1].identity
    /\ cacheTime.result = <<>>

-----------------------------------------------------------------------------
(* C24: what the encrypt calls leave alone *)

\* records a and b have the same fields and agree on all of them but those
\* named in changed
SameBut(a, b, changed) ==
    /\ DOMAIN a = DOMAIN b
    /\ \A f \in DOMAIN a \ changed : a[f] = b[f]

\* the latest call was op and it succeeded
Succeeded(op) == last.op = op /\ last.result.ok

\* C24: encrypt_outer changes only the body and the encryption method of the
\* message; encrypt_inner changes only message_data of an unencrypted body,
\* and nothing of a message whose body is encrypted; the external metadata is
\* the same after either call, and the internal metadata after encrypt_inner
C24_EncryptFrame ==
    /\ Succeeded("encrypt_outer") =>
          /\ SameBut(last.input, last.result.value, {"body", "encryption"})
          /\ last.result.value.external_metadata = last.input.external_metadata
    /\ Succeeded("encrypt_inner") =>
          /\ SameBut(last.input, last.result.value, {"body"})
          /\ last.result.value.external_metadata = last.input.external_metadata
          /\ IF last.input.body.tag = "Unencrypted"
             THEN /\ SameBut(last.input.body, last.result.value.body, {"message_data"})
                  /\ last.result.value.body.internal_metadata =
                        last.input.body.internal_metadata
             ELSE last.result.value = last.input

\* encrypt_inner has encrypted the content of a message that names the
\* sender's subidentity
C24_Witness ==
    /\ Succeeded("encrypt_inner")
    /\ last.input.body.tag = "Unencrypted"
    /\ last.input.body.message_data.tag = "Unencrypted"
    /\ last.result.value.body.message_data.tag = "Encrypted"
    /\ last.input.body.internal_metadata.sender_subidentity # <<>>
    /\ last.input.external_metadata.sender # <<>>

\* encrypt_outer has encrypted a body whose content was already encrypted
C24_OuterWitness ==
    /\ Succeeded("encrypt_outer")
    /\ last.input.body.tag = "Unencrypted"
    /\ last.input.body.message_data.tag = "Encrypted"
    /\ last.result.value.body.tag = "Encrypted"
    /\ last.result.value.external_metadata.recipient # <<>>

-----------------------------------------------------------------------------
(* C27: the length prefix of the inner envelope *)

\* C27: decrypt_inner of an inner envelope of which one byte was changed, in
\* the len_content / len_schema prefix as well as in the nonce or the
\* ciphertext, returns DecryptionError; an Ok result is the content and the
\* schema that encrypt_inner encrypted
C27_InnerEnvelopeIntegrity ==
    DecryptedData =>
        /\ AlteredKind \in {"len_content", "len_schema", "nonce", "ciphertext"}
              => ~last.result.ok /\ last.result.err = "DecryptionError"
        /\ last.result.ok /\ KeysMatch(sealedData, last.self_sk, last.other_pk)
              => /\ AlteredKind = "none"
                 /\ last.result.value.body.message_data = sealedData.plain

\* decrypt_inner has returned Ok, with the content and schema that were
\* encrypted, for an envelope whose len_schema was changed on the way
C27_SchemaLengthWitness ==
    /\ DecryptedData
    /\ AlteredKind = "len_schema"
    /\ last.result.ok
    /\ last.result.value.body.message_data = sealedData.plain

-----------------------------------------------------------------------------
(* C28: the two layers together *)

\* decrypt_inner applied to what decrypt_outer returned
ThenDecryptInner(outer, self_sk, sender_pk) ==
    IF outer.ok THEN decrypt_inner_layer(outer.value, self_sk, sender_pk) ELSE outer

\* decrypt_outer and then decrypt_inner of m, by the recipient
DecryptBoth(m) ==
    ThenDecryptInner(
        decrypt_outer_layer(m, parties.recipient, EncryptionPublicKey(parties.sender)),
        parties.recipient, EncryptionPublicKey(parties.sender))

\* the message was composed to be encrypted
ToBeEncrypted(m) == m # NoMessage /\ m.encryption # "None"

\* C28 (the plaintext is never lost): for a message composed with an
\* unencrypted body and content and an encryption method other than None,
\* after any sequence of encrypt and decrypt calls made with the matching
\* keys, decrypt_outer and then decrypt_inner yield the body as composed
C28_PlaintextKept ==
    ToBeEncrypted(message) =>
        /\ DecryptBoth(message).ok
        /\ DecryptBoth(message).value.body = composed.body
        /\ composed.body.tag = "Unencrypted"
        /\ composed.body.message_data.tag = "Unencrypted"

\* C28 (the layers are independent): no layer encrypts what it has already
\* encrypted: what either layer encrypted was unencrypted, encrypt_inner of
\* an encrypted content returns the message as it is, and encrypt_outer of an
\* encrypted body fails; decrypt_outer of a message encrypted inner-then-outer
\* returns the inner envelope byte for byte, with status ContentEncrypted
C28_LayersIndependent ==
    /\ sealedData # NoSeal => sealedData.plain.tag = "Unencrypted"
    /\ sealedBody # NoSeal => sealedBody.plain.tag = "Unencrypted"
    /\ (last.op = "encrypt_inner" /\ is_content_currently_encrypted(last.input))
          => last.result = OkOf(last.input)
    /\ (last.op = "encrypt_outer" /\ is_body_currently_encrypted(last.input))
          => ~last.result.ok /\ last.result.err = "AlreadyEncrypted"
    /\ (/\ Succeeded("decrypt_outer")
        /\ is_body_currently_encrypted(last.input)
        /\ sealedBody.plain.message_data.tag = "Encrypted")
          => /\ last.result.value.body.message_data = sealedBody.plain.message_data
             /\ get_encryption_status(last.result.value) = "ContentEncrypted"

\* C28: after any sequence of encrypt and decrypt calls with the matching keys
\* the two decrypts yield the body as composed, no layer encrypts twice, and
\* taking the outer layer off returns the inner envelope unchanged
C28_TwoLayers == C28_PlaintextKept /\ C28_LayersIndependent

\* the recipient has taken the outer layer off a message that was encrypted
\* inner-then-outer: the inner envelope is back, and the two decrypts yield
\* the body the sender composed
C28_Witness ==
    /\ Succeeded("decrypt_outer")
    /\ message = last.result.value
    /\ get_encryption_status(last.input) = "BodyEncrypted"
    /\ get_encryption_status(message) = "ContentEncrypted"
    /\ message.body.message_data = sealedBody.plain.message_data
    /\ DecryptBoth(message).ok
    /\ DecryptBoth(message).value.body = composed.body
    /\ composed.body.message_data = sealedData.plain
    /\ sealedData.plain.message_raw_content # <<>>

====
